---- MODULE Spec2Model ----
(***************************************************************************)
(* QuickCV: the resume validator (src/validators, utils/depth-check,       *)
(* utils/sanitization, types/validation.types) as a state machine, and,    *)
(* further down, the section transformer and the paginating renderer.      *)
(*                                                                         *)
(* A JavaScript value is a pair <<kind, payload>>:                         *)
(*   <<"undef", <<>>>>   undefined (also: a key that is absent)            *)
(*   <<"null",  <<>>>>   null                                              *)
(*   <<"num",   <<>>>>   a one-digit number (any non-string primitive)     *)
(*   <<"str",   runs>>   a string, run-length encoded: a sequence of       *)
(*                       <<character, count>> with count >= 1              *)
(*   <<"arr",   elems>>  an array, the sequence of its elements            *)
(*   <<"obj",   pairs>>  a plain object, the sequence of its own           *)
(*                       <<key, value>> pairs in insertion order           *)
(* The characters are "a" (a letter), " " (a space), "<" (printable, but   *)
(* outside the safe pattern) and "NUL" (U+0000).                           *)
(***************************************************************************)
EXTENDS Integers, Sequences, FiniteSets, TLC

VARIABLES data, limits, pc, errors, isValid, ran

\* the transformer and the renderer (transformResumeToDocumentWithOrder,
\* renderDocumentToPDFWithMetadata): their parameters, locals and position
VARIABLES resume, sectionOrder, order, elements, sectionIndex,
          densityPreset, currentY, isFirstTextLine, position, item, draws,
          links, newPages, pageCount, stage

\* a request handler (handleGeneratePDF of server.ts, handler of
\* api/generate-pdf.ts): which of the two, the parsed body, the handler's
\* position and its response
VARIABLES endpoint, body, handler, response

\* render calls in progress at once: the RendererState objects allocated so
\* far, and for each call its parameters, the object its `state` refers to
\* and its position in document.elements
VARIABLES states, calls

\* the section-reorder control: the sectionOrder it is given and the last
\* button pressed
VARIABLES shownOrder, clicked

validatorVars == <<data, limits, pc, errors, isValid, ran>>

pdfVars == <<resume, sectionOrder, order, elements, sectionIndex,
             densityPreset, currentY, isFirstTextLine, position, item, draws,
             links, newPages, pageCount, stage>>

handlerVars == <<endpoint, body, handler, response>>

callVars == <<states, calls>>

reorderVars == <<shownOrder, clicked>>

restVars == <<handlerVars, callVars, reorderVars>>

vars == <<validatorVars, pdfVars, restVars>>

\* no document is being produced
PdfIdle ==
  /\ resume = <<>>
  /\ sectionOrder = <<>>
  /\ order = <<>>
  /\ elements = <<>>
  /\ sectionIndex = 0
  /\ densityPreset = "normal"
  /\ currentY = 0
  /\ isFirstTextLine = FALSE
  /\ position = 0
  /\ item = 0
  /\ draws = <<>>
  /\ links = <<>>
  /\ newPages = 0
  /\ pageCount = 0
  /\ stage = "idle"

\* no request is being handled
HandlerIdle ==
  /\ endpoint = "none"
  /\ body = <<>>
  /\ handler = "idle"
  /\ response = [status |-> 0, error |-> "", validationErrors |-> <<>>, pageCount |-> 0]

\* no render calls are in progress
CallsIdle ==
  /\ states = <<>>
  /\ calls = <<>>

\* the section-reorder control is not shown
ReorderIdle ==
  /\ shownOrder = <<>>
  /\ clicked = <<>>

RestIdle == HandlerIdle /\ CallsIdle /\ ReorderIdle

(***************************************************************************)
(* Values                                                                  *)
(***************************************************************************)
Undef == <<"undef", <<>>>>
Null == <<"null", <<>>>>
Num == <<"num", <<>>>>
Str(runs) == <<"str", runs>>
Arr(elems) == <<"arr", elems>>
Obj(pairs) == <<"obj", pairs>>

Kind(v) == v[1]
Body(v) == v[2]

\* typeof v === 'string'
IsString(v) == Kind(v) = "str"
\* Array.isArray(v)
IsArray(v) == Kind(v) = "arr"
\* typeof v === 'object' (true of null, of arrays and of objects)
TypeofObject(v) == Kind(v) \in {"null", "arr", "obj"}

\* obj.key for an object-typed, non-null value: the own property, else undefined
Get(v, key) ==
  IF Kind(v) = "obj" /\ \E i \in 1..Len(Body(v)) : Body(v)[i][1] = key
  THEN Body(v)[CHOOSE i \in 1..Len(Body(v)) :
                  /\ Body(v)[i][1] = key
                  /\ \A j \in (i + 1)..Len(Body(v)) : Body(v)[j][1] # key][2]
  ELSE Undef

\* sums, maxima and concatenations over a sequence, by halving
RECURSIVE SumRange(_, _, _)
SumRange(s, lo, hi) ==
  IF lo > hi THEN 0
  ELSE IF lo = hi THEN s[lo]
  ELSE LET mid == (lo + hi) \div 2 IN SumRange(s, lo, mid) + SumRange(s, mid + 1, hi)

SumSeq(s) == SumRange(s, 1, Len(s))

MaxSeq(s, least) ==
  LET among == {s[i] : i \in 1..Len(s)} \cup {least}
  IN CHOOSE m \in among : \A x \in among : m >= x

RECURSIVE FlattenRange(_, _, _)
FlattenRange(ss, lo, hi) ==
  IF lo > hi THEN <<>>
  ELSE IF lo = hi THEN ss[lo]
  ELSE LET mid == (lo + hi) \div 2
       IN FlattenRange(ss, lo, mid) \o FlattenRange(ss, mid + 1, hi)

Flatten(ss) == FlattenRange(ss, 1, Len(ss))

(***************************************************************************)
(* Strings                                                                 *)
(***************************************************************************)
\* value.length
StrLen(runs) == SumSeq([i \in 1..Len(runs) |-> runs[i][2]])

IsWhitespace(c) == c = " "

\* value.trim()
RECURSIVE TrimStart(_)
TrimStart(runs) ==
  IF runs # <<>> /\ IsWhitespace(Head(runs)[1]) THEN TrimStart(Tail(runs)) ELSE runs

RECURSIVE TrimEnd(_)
TrimEnd(runs) ==
  IF runs # <<>> /\ IsWhitespace(runs[Len(runs)][1])
  THEN TrimEnd(SubSeq(runs, 1, Len(runs) - 1))
  ELSE runs

Trim(runs) == TrimEnd(TrimStart(runs))

\* the character class of safePattern: letters, digits, whitespace, common punctuation
InSafeClass(c) == c \in {"a", " "}

\* input.includes('\0')
IncludesNul(runs) == \E i \in 1..Len(runs) : runs[i][1] = "NUL"

isSafeString(runs) ==
  /\ \A i \in 1..Len(runs) : InSafeClass(runs[i][1])
  /\ ~IncludesNul(runs)

(***************************************************************************)
(* Limits                                                                  *)
(***************************************************************************)
DEFAULT_VALIDATION_LIMITS ==
  [ maxStringLength |-> 1000,
    maxSummaryLength |-> 500,
    maxArrayLength |-> 50,
    maxDescriptionPoints |-> 10,
    maxSkillsCount |-> 100,
    maxExperienceEntries |-> 20,
    maxEducationEntries |-> 10,
    maxProjectEntries |-> 15,
    maxObjectDepth |-> 5,
    maxJsonSize |-> 1024 * 1024 ]

(***************************************************************************)
(* Field validators: each returns the errors it pushes, in order           *)
(***************************************************************************)
Err(type, field) == [type |-> type, field |-> field]

\* as validateRequiredString, with the length compared by >= instead of >
validateRequiredString_LengthOffByOne(value, fieldName, maxLength) ==
  IF ~IsString(value) THEN <<Err("INVALID_TYPE", fieldName)>>
  ELSE IF Trim(Body(value)) = <<>> THEN <<Err("REQUIRED_FIELD_MISSING", fieldName)>>
  ELSE IF StrLen(Body(value)) >= maxLength THEN <<Err("STRING_TOO_LONG", fieldName)>>
  ELSE IF ~isSafeString(Body(value)) THEN <<Err("UNSAFE_CONTENT", fieldName)>>
  ELSE <<>>

\* as validateRequiredString, the length check not ending the checks
validateRequiredString_ChecksOn(value, fieldName, maxLength) ==
  IF ~IsString(value) THEN <<Err("INVALID_TYPE", fieldName)>>
  ELSE IF Trim(Body(value)) = <<>> THEN <<Err("REQUIRED_FIELD_MISSING", fieldName)>>
  ELSE (IF StrLen(Body(value)) > maxLength
        THEN <<Err("STRING_TOO_LONG", fieldName)>> ELSE <<>>)
       \o (IF ~isSafeString(Body(value))
           THEN <<Err("UNSAFE_CONTENT", fieldName)>> ELSE <<>>)

validateRequiredString(value, fieldName, maxLength) ==
  IF ~IsString(value) THEN <<Err("INVALID_TYPE", fieldName)>>
  ELSE IF Trim(Body(value)) = <<>> THEN <<Err("REQUIRED_FIELD_MISSING", fieldName)>>
  ELSE IF StrLen(Body(value)) > maxLength THEN <<Err("STRING_TOO_LONG", fieldName)>>
  ELSE IF ~isSafeString(Body(value)) THEN <<Err("UNSAFE_CONTENT", fieldName)>>
  ELSE <<>>

\* as validateOptionalString, a whitespace-only string counting as absent
validateOptionalString_BlankIsAbsent(value, fieldName, maxLength) ==
  IF value = Undef \/ value = Null \/ value = Str(<<>>) THEN <<>>
  ELSE IF IsString(value) /\ Trim(Body(value)) = <<>> THEN <<>>
  ELSE validateRequiredString(value, fieldName, maxLength)

validateOptionalString(value, fieldName, maxLength) ==
  IF value = Undef \/ value = Null \/ value = Str(<<>>) THEN <<>>
  ELSE validateRequiredString(value, fieldName, maxLength)

Indexed(fieldName, i) == fieldName \o "[" \o ToString(i) \o "]"

\* the loop of validateStringArray: it validates the elements in index order
\* and returns at the first that is not a valid required string, so the errors
\* it pushes are those of that element alone
StringArrayLoop(elems, fieldName, maxLength) ==
  LET e(i) == validateRequiredString(elems[i + 1], Indexed(fieldName, i), maxLength)
      failing == {i \in 0..(Len(elems) - 1) : e(i) # <<>>}
  IN IF failing = {} THEN <<>>
     ELSE e(CHOOSE i \in failing : \A j \in failing : i <= j)

validateStringArray(value, fieldName, maxItems, maxLength) ==
  IF ~IsArray(value) THEN <<Err("INVALID_TYPE", fieldName)>>
  ELSE IF Len(Body(value)) > maxItems THEN <<Err("ARRAY_TOO_LARGE", fieldName)>>
  ELSE StringArrayLoop(Body(value), fieldName, maxLength)

\* typeof data !== 'object' || data === null
NotAnObject(v) == ~TypeofObject(v) \/ v = Null

validateContactInfo(v, L) ==
  IF NotAnObject(v) THEN <<Err("INVALID_TYPE", "contact")>>
  ELSE validateRequiredString(Get(v, "fullName"), "contact.fullName", L.maxStringLength)
    \o validateRequiredString(Get(v, "email"), "contact.email", L.maxStringLength)
    \o validateRequiredString(Get(v, "phone"), "contact.phone", L.maxStringLength)
    \o validateRequiredString(Get(v, "location"), "contact.location", L.maxStringLength)
    \o validateOptionalString(Get(v, "linkedin"), "contact.linkedin", L.maxStringLength)
    \o validateOptionalString(Get(v, "github"), "contact.github", L.maxStringLength)
    \o validateOptionalString(Get(v, "portfolio"), "contact.portfolio", L.maxStringLength)
    \o validateOptionalString(Get(v, "twitter"), "contact.twitter", L.maxStringLength)

validateProfessionalSummary(v, L) ==
  IF NotAnObject(v) THEN <<Err("INVALID_TYPE", "summary")>>
  ELSE validateRequiredString(Get(v, "summary"), "summary.summary", L.maxSummaryLength)

validateWorkExperience(v, index, L) ==
  LET prefix == Indexed("experience", index) IN
  IF NotAnObject(v) THEN <<Err("INVALID_TYPE", prefix)>>
  ELSE validateRequiredString(Get(v, "company"), prefix \o ".company", L.maxStringLength)
    \o validateRequiredString(Get(v, "role"), prefix \o ".role", L.maxStringLength)
    \o validateRequiredString(Get(v, "startDate"), prefix \o ".startDate", L.maxStringLength)
    \o validateOptionalString(Get(v, "location"), prefix \o ".location", L.maxStringLength)
    \o validateOptionalString(Get(v, "endDate"), prefix \o ".endDate", L.maxStringLength)
    \o validateStringArray(Get(v, "description"), prefix \o ".description",
                           L.maxDescriptionPoints, L.maxStringLength)

\* one coursework element: its type and its length are checked, nothing else
CourseworkErrors(course, fieldName, L) ==
  IF ~IsString(course) THEN <<Err("INVALID_TYPE", fieldName)>>
  ELSE IF StrLen(Body(course)) > L.maxStringLength THEN <<Err("STRING_TOO_LONG", fieldName)>>
  ELSE <<>>

validateEducation(v, index, L) ==
  LET prefix == Indexed("education", index)
      cw == Get(v, "relevantCourseWorks")
  IN
  IF NotAnObject(v) THEN <<Err("INVALID_TYPE", prefix)>>
  ELSE validateRequiredString(Get(v, "institution"), prefix \o ".institution", L.maxStringLength)
    \o validateRequiredString(Get(v, "degree"), prefix \o ".degree", L.maxStringLength)
    \o validateRequiredString(Get(v, "startDate"), prefix \o ".startDate", L.maxStringLength)
    \o validateOptionalString(Get(v, "fieldOfStudy"), prefix \o ".fieldOfStudy", L.maxStringLength)
    \o validateOptionalString(Get(v, "endDate"), prefix \o ".endDate", L.maxStringLength)
    \o validateOptionalString(Get(v, "cgpa"), prefix \o ".cgpa", L.maxStringLength)
    \o (IF cw = Undef THEN <<>>
        ELSE IF ~IsArray(cw) THEN <<Err("INVALID_TYPE", prefix \o ".relevantCourseWorks")>>
        ELSE Flatten([i \in 1..Len(Body(cw)) |->
               CourseworkErrors(Body(cw)[i],
                                Indexed(prefix \o ".relevantCourseWorks", i - 1), L)]))

validateSkills(v, L) ==
  IF NotAnObject(v) THEN <<Err("INVALID_TYPE", "skills")>>
  ELSE validateStringArray(Get(v, "skills"), "skills.skills",
                           L.maxSkillsCount, L.maxStringLength)

validateProject(v, index, L) ==
  LET prefix == Indexed("projects", index) IN
  IF NotAnObject(v) THEN <<Err("INVALID_TYPE", prefix)>>
  ELSE validateRequiredString(Get(v, "name"), prefix \o ".name", L.maxStringLength)
    \o validateStringArray(Get(v, "description"), prefix \o ".description",
                           L.maxDescriptionPoints, L.maxStringLength)
    \o (IF Get(v, "techStack") # Undef
        THEN validateStringArray(Get(v, "techStack"), prefix \o ".techStack",
                                 L.maxArrayLength, L.maxStringLength)
        ELSE <<>>)
    \o validateOptionalString(Get(v, "link"), prefix \o ".link", L.maxStringLength)

(***************************************************************************)
(* Structural checks                                                       *)
(***************************************************************************)
\* the UTF-8 bytes one character takes in JSON.stringify's output
CharBytes(c) == IF c = "NUL" THEN 6 ELSE 1

\* Buffer.byteLength(JSON.stringify(v), 'utf8'); a property whose value is
\* undefined is left out by JSON.stringify
RECURSIVE JsonBytes(_)
JsonBytes(v) ==
  CASE Kind(v) = "null" -> 4
    [] Kind(v) = "num" -> 1
    [] Kind(v) = "str" ->
         2 + SumSeq([i \in 1..Len(Body(v)) |-> CharBytes(Body(v)[i][1]) * Body(v)[i][2]])
    [] Kind(v) = "arr" ->
         2 + SumSeq([i \in 1..Len(Body(v)) |->
                       IF Body(v)[i] = Undef THEN 4 ELSE JsonBytes(Body(v)[i])])
           + (IF Len(Body(v)) > 0 THEN Len(Body(v)) - 1 ELSE 0)
    [] Kind(v) = "obj" ->
         LET kept == SelectSeq(Body(v), LAMBDA p : p[2] # Undef) IN
         2 + SumSeq([i \in 1..Len(kept) |-> Len(kept[i][1]) + 3 + JsonBytes(kept[i][2])])
           + (IF Len(kept) > 0 THEN Len(kept) - 1 ELSE 0)
    [] OTHER -> 0

\* JSON.stringify throws only on values a payload parsed from JSON cannot be
\* (cycles, BigInt), so the catch branch returning 0 is not taken
getJsonSize(v) == JsonBytes(v)

\* isPlainObject(v) || Array.isArray(v)
IsContainer(v) == Kind(v) \in {"obj", "arr"}

\* Array.isArray(obj) ? obj : Object.values(obj)
Children(v) ==
  IF Kind(v) = "arr" THEN Body(v) ELSE [i \in 1..Len(Body(v)) |-> Body(v)[i][2]]

RECURSIVE getObjectDepth(_, _)
getObjectDepth(obj, currentDepth) ==
  IF ~IsContainer(obj) THEN currentDepth
  ELSE LET values == Children(obj)
           inner == SelectSeq(values, IsContainer)
       IN MaxSeq([i \in 1..Len(inner) |-> getObjectDepth(inner[i], currentDepth + 1)],
                 currentDepth)

isDepthSafe(obj, maxDepth) == getObjectDepth(obj, 0) <= maxDepth

DANGEROUS_KEYS == {"__proto__", "constructor", "prototype"}

\* as hasNoDangerousKeys, without the descent into array elements
RECURSIVE hasNoDangerousKeys_ObjectsOnly(_)
hasNoDangerousKeys_ObjectsOnly(obj) ==
  IF Kind(obj) # "obj" THEN TRUE
  ELSE /\ \A i \in 1..Len(Body(obj)) : Body(obj)[i][1] \notin DANGEROUS_KEYS
       /\ \A i \in 1..Len(Body(obj)) : hasNoDangerousKeys_ObjectsOnly(Body(obj)[i][2])

RECURSIVE hasNoDangerousKeys(_)
hasNoDangerousKeys(obj) ==
  IF ~IsContainer(obj) THEN TRUE
  ELSE /\ Kind(obj) = "obj" => \A i \in 1..Len(Body(obj)) : Body(obj)[i][1] \notin DANGEROUS_KEYS
       /\ \A i \in 1..Len(Children(obj)) : hasNoDangerousKeys(Children(obj)[i])

isStructureSafe(obj, maxDepth) == isDepthSafe(obj, maxDepth) /\ hasNoDangerousKeys(obj)

(***************************************************************************)
(* Inputs: the limits validate is called with, and payloads built from     *)
(* them.  A payload is a well-formed resume in which at most MaxDefects    *)
(* of its parts are replaced by a variant (missing, mistyped, blank, over  *)
(* a limit, exactly at a limit, unsafe, reserved key, too deep, too big),  *)
(* or it is not an object at all.                                          *)
(***************************************************************************)
MaxDefects == 2

TightStringLength == 3
TightSummaryLength == 2
TightArrayLength == 2
TightDescriptionPoints == 2
TightSkillsCount == 3
TightExperienceEntries == 2
TightEducationEntries == 1
TightProjectEntries == 1
TightObjectDepth == 3
TightJsonSize == 2000

\* limits a caller passes instead of the defaults
TIGHT_LIMITS ==
  [ maxStringLength |-> TightStringLength,
    maxSummaryLength |-> TightSummaryLength,
    maxArrayLength |-> TightArrayLength,
    maxDescriptionPoints |-> TightDescriptionPoints,
    maxSkillsCount |-> TightSkillsCount,
    maxExperienceEntries |-> TightExperienceEntries,
    maxEducationEntries |-> TightEducationEntries,
    maxProjectEntries |-> TightProjectEntries,
    maxObjectDepth |-> TightObjectDepth,
    maxJsonSize |-> TightJsonSize ]

LimitChoices == {DEFAULT_VALIDATION_LIMITS, TIGHT_LIMITS}

P(k, v) == <<k, v>>
Fill(v, n) == [i \in 1..n |-> v]
Rep(c, n) == IF n = 0 THEN <<>> ELSE <<<<c, n>>>>

sOK == Str(Rep("a", 1))
sEmpty == Str(<<>>)
sBlank == Str(Rep(" ", 1))
sUnsafe == Str(Rep("<", 1))
sNul == Str(<<<<"a", 1>>, <<"NUL", 1>>>>)
sPadded == Str(<<<<" ", 1>>, <<"a", 1>>, <<" ", 1>>>>)
sMax(L) == Str(Rep("a", L.maxStringLength))
sLong(L) == Str(Rep("a", L.maxStringLength + 1))
sLongNul(L) == Str(<<<<"NUL", 1>>, <<"a", L.maxStringLength>>>>)
sHuge(L) == Str(Rep("a", L.maxJsonSize))

\* n containers nested in each other, arrays and objects in turn, around leaf
RECURSIVE Chain(_, _)
Chain(n, leaf) ==
  IF n = 0 THEN leaf
  ELSE IF n % 2 = 1 THEN Arr(<<Chain(n - 1, leaf)>>)
  ELSE Obj(<<P("in", Chain(n - 1, leaf))>>)

contactOK == <<P("fullName", sOK), P("email", sPadded), P("phone", sOK), P("location", sOK)>>

ContactVariants(L) ==
  << Undef,
     Null,
     Arr(<<>>),
     Obj(<<P("fullName", sOK), P("phone", sOK), P("location", sOK)>>),
     Obj(<<P("fullName", sLong(L)), P("email", sBlank), P("phone", Num),
           P("location", sNul), P("twitter", sUnsafe)>>),
     Obj(contactOK \o <<P("linkedin", sEmpty), P("github", Null), P("portfolio", sMax(L))>>),
     Obj(contactOK \o <<P("linkedin", sBlank)>>),
     Obj(contactOK \o <<P("constructor", sOK)>>),
     Obj(contactOK \o <<P("linkedin", sLong(L)), P("github", Num),
                         P("portfolio", sUnsafe), P("twitter", sBlank)>>),
     Obj(contactOK \o <<P("jobTitle", sUnsafe)>>) >>

SummaryVariants(L) ==
  << Undef,
     Num,
     Obj(<<>>),
     Obj(<<P("summary", Str(Rep("a", L.maxSummaryLength + 1)))>>),
     Obj(<<P("summary", Str(Rep("a", L.maxSummaryLength)))>>) >>

expOK == <<P("company", sOK), P("role", sOK), P("startDate", sOK),
           P("description", Arr(<<sOK>>))>>
expBad == Obj(<<P("company", sBlank), P("startDate", Num),
                P("description", Arr(<<sOK, sUnsafe, sNul>>))>>)

ExperienceVariants(L) ==
  << Undef,
     Arr(<<>>),
     Arr(Fill(expBad, L.maxExperienceEntries + 1)),
     Arr(Fill(Obj(expOK), L.maxExperienceEntries)),
     Arr(<<expBad, Num>>),
     Arr(<<Obj(<<P("company", sOK), P("role", sOK), P("startDate", sOK),
                 P("location", sBlank), P("endDate", sEmpty),
                 P("description", Arr(Fill(sOK, L.maxDescriptionPoints + 1)))>>)>>),
     Arr(<<Obj(<<P("company", sOK), P("role", sOK), P("startDate", sOK),
                 P("endDate", sOK),
                 P("description", Arr(Fill(sMax(L), L.maxDescriptionPoints)))>>)>>) >>

eduOK == <<P("institution", sOK), P("degree", sOK), P("startDate", sOK)>>
eduBad == Obj(<<P("institution", sOK), P("startDate", sUnsafe), P("fieldOfStudy", sBlank),
                P("cgpa", Num)>>)

EducationVariants(L) ==
  << Null,
     Arr(<<>>),
     Arr(Fill(eduBad, L.maxEducationEntries + 1)),
     Arr(<<eduBad>>),
     Arr(<<Obj(eduOK \o <<P("relevantCourseWorks", Arr(<<Num, sLong(L), sNul, sBlank>>))>>)>>),
     Arr(<<Obj(eduOK \o <<P("relevantCourseWorks", Num)>>)>>),
     Arr(<<Obj(eduOK \o <<P("endDate", Null), P("cgpa", sOK),
                          P("relevantCourseWorks", Arr(<<sOK>>))>>)>>),
     Arr(<<Obj(eduOK \o <<P("cgpa", sPadded),
                          P("relevantCourseWork", Arr(<<sOK, sUnsafe>>))>>)>>) >>

SkillsVariants(L) ==
  << Undef,
     Num,
     Obj(<<>>),
     Obj(<<P("skills", Arr(<<sOK, sNul>>))>>),
     Obj(<<P("skills", Arr(<<sBlank, sNul, sUnsafe>>))>>),
     Obj(<<P("skills", Arr(Fill(sNul, L.maxSkillsCount + 1)))>>),
     Obj(<<P("skills", Arr(<<sLongNul(L)>>))>>),
     Obj(<<P("skills", Arr(Fill(sOK, L.maxSkillsCount)))>>) >>

projOK == <<P("name", sOK), P("description", Arr(<<sOK>>))>>
projBad == Obj(<<P("name", Num), P("description", Arr(<<Num, sUnsafe>>)),
                 P("techStack", Arr(<<sBlank, sBlank>>)), P("link", sBlank)>>)

ProjectsVariants(L) ==
  << Undef,
     Arr(<<>>),
     Arr(Fill(projBad, L.maxProjectEntries + 1)),
     Arr(<<projBad>>),
     Arr(<<Obj(projOK \o <<P("techStack", Null)>>)>>),
     Arr(<<Obj(projOK \o <<P("techStack", Arr(Fill(sOK, L.maxArrayLength + 1)))>>)>>),
     Arr(<<Obj(projOK \o <<P("techStack", Arr(<<sOK>>)), P("link", sOK)>>)>>) >>

\* a further key of the payload
ExtraVariants(L) ==
  << Obj(<<P("extra", Chain(L.maxObjectDepth - 1, Num))>>),
     Obj(<<P("extra", Chain(L.maxObjectDepth, Num))>>),
     Obj(<<P("extra", Chain(L.maxObjectDepth + 1, Num))>>),
     Obj(<<P("__proto__", Num)>>),
     Obj(<<P("extra", Arr(<<Obj(<<P("prototype", Null)>>)>>))>>),
     Obj(<<P("extra", Obj(<<P("a", Obj(<<P("constructor", Arr(<<>>))>>))>>))>>),
     Obj(<<P("extra", sHuge(L))>>),
     Obj(<<P("extra", Chain(L.maxObjectDepth + 1, sHuge(L)))>>),
     Obj(<<P("__proto__", sHuge(L))>>) >>

Parts == {"contact", "summary", "experience", "education", "skills", "projects", "extra"}

Variants(part, L) ==
  CASE part = "contact" -> ContactVariants(L)
    [] part = "summary" -> SummaryVariants(L)
    [] part = "experience" -> ExperienceVariants(L)
    [] part = "education" -> EducationVariants(L)
    [] part = "skills" -> SkillsVariants(L)
    [] part = "projects" -> ProjectsVariants(L)
    [] part = "extra" -> ExtraVariants(L)

WellFormed(part) ==
  CASE part = "contact" -> Obj(contactOK)
    [] part = "summary" -> Obj(<<P("summary", sOK)>>)
    [] part = "experience" -> Arr(<<Obj(expOK)>>)
    [] part = "education" -> Arr(<<Obj(eduOK)>>)
    [] part = "skills" -> Obj(<<P("skills", Arr(<<sOK, sPadded>>))>>)
    [] part = "projects" -> Arr(<<Obj(projOK)>>)
    [] part = "extra" -> Obj(<<>>)

\* the payload whose parts in DOMAIN pick are the chosen variants
Resume(pick, L) ==
  LET part(name) == IF name \in DOMAIN pick THEN Variants(name, L)[pick[name]]
                    ELSE WellFormed(name)
      keyed(name) == IF part(name) = Undef THEN <<>> ELSE <<P(name, part(name))>>
  IN Obj(keyed("contact") \o keyed("summary") \o keyed("experience")
           \o keyed("education") \o keyed("skills") \o keyed("projects")
           \o Body(part("extra")))

Picks(L) ==
  LET most == CHOOSE n \in {Len(Variants(p, L)) : p \in Parts} :
                \A p \in Parts : Len(Variants(p, L)) <= n
  IN UNION { { f \in [D -> 1..most] : \A d \in D : f[d] <= Len(Variants(d, L)) } :
             D \in {S \in SUBSET Parts : Cardinality(S) <= MaxDefects} }

NotResumes(L) ==
  { Undef, Null, Num, sOK, Arr(<<>>), Arr(<<Obj(<<P("__proto__", Num)>>)>>),
    Arr(<<sHuge(L)>>) }

Payloads(L) == { Resume(f, L) : f \in Picks(L) } \cup NotResumes(L)

(***************************************************************************)
(* validateResume, one action per check; `errors` is its local array,      *)
(* `ran` the checks it has executed, and at pc = "done" it has returned    *)
(* {isValid, errors}.                                                      *)
(***************************************************************************)
Init ==
  /\ limits \in LimitChoices
  /\ data \in Payloads(limits)
  /\ pc = "presence"
  /\ errors = <<>>
  /\ isValid = FALSE
  /\ ran = <<>>
  /\ PdfIdle
  /\ RestIdle

\* data === null || data === undefined: one error, return
CheckPresence ==
  /\ pc = "presence"
  /\ ran' = Append(ran, "presence")
  /\ IF data = Null \/ data = Undef
     THEN /\ errors' = Append(errors, Err("REQUIRED_FIELD_MISSING", "resume"))
          /\ isValid' = FALSE
          /\ pc' = "done"
     ELSE /\ pc' = "object"
          /\ UNCHANGED <<errors, isValid>>
  /\ UNCHANGED <<data, limits, pdfVars, restVars>>

\* typeof data !== 'object' || Array.isArray(data): one error, return
CheckObject ==
  /\ pc = "object"
  /\ ran' = Append(ran, "object")
  /\ IF ~TypeofObject(data) \/ IsArray(data)
     THEN /\ errors' = Append(errors, Err("INVALID_TYPE", "resume"))
          /\ isValid' = FALSE
          /\ pc' = "done"
     ELSE /\ pc' = "size"
          /\ UNCHANGED <<errors, isValid>>
  /\ UNCHANGED <<data, limits, pdfVars, restVars>>

\* as CheckSize, pushing the error without returning
CheckSize_Continues ==
  /\ pc = "size"
  /\ ran' = Append(ran, "size")
  /\ errors' = IF getJsonSize(data) > limits.maxJsonSize
               THEN Append(errors, Err("SIZE_EXCEEDED", "resume"))
               ELSE errors
  /\ pc' = "structure"
  /\ UNCHANGED <<data, limits, isValid, pdfVars, restVars>>

\* jsonSize > limits.maxJsonSize: one error, return
CheckSize ==
  /\ pc = "size"
  /\ ran' = Append(ran, "size")
  /\ IF getJsonSize(data) > limits.maxJsonSize
     THEN /\ errors' = Append(errors, Err("SIZE_EXCEEDED", "resume"))
          /\ isValid' = FALSE
          /\ pc' = "done"
     ELSE /\ pc' = "structure"
          /\ UNCHANGED <<errors, isValid>>
  /\ UNCHANGED <<data, limits, pdfVars, restVars>>

\* !isStructureSafe(data, limits.maxObjectDepth): one error, return
CheckStructure ==
  /\ pc = "structure"
  /\ ran' = Append(ran, "structure")
  /\ IF ~isStructureSafe(data, limits.maxObjectDepth)
     THEN /\ errors' = Append(errors, Err("DEPTH_EXCEEDED", "resume"))
          /\ isValid' = FALSE
          /\ pc' = "done"
     ELSE /\ pc' = "contact"
          /\ UNCHANGED <<errors, isValid>>
  /\ UNCHANGED <<data, limits, pdfVars, restVars>>

\* the errors validateResume pushes for each section
ContactErrors(d, L) ==
  IF Get(d, "contact") = Undef THEN <<Err("REQUIRED_FIELD_MISSING", "contact")>>
  ELSE validateContactInfo(Get(d, "contact"), L)

SummaryErrors(d, L) ==
  IF Get(d, "summary") = Undef THEN <<Err("REQUIRED_FIELD_MISSING", "summary")>>
  ELSE validateProfessionalSummary(Get(d, "summary"), L)

\* as ExperienceErrors, validating the entries of an over-limit array as well
ExperienceErrors_AlsoValidatesEntries(d, L) ==
  LET a == Get(d, "experience") IN
  IF ~IsArray(a) THEN <<Err("INVALID_TYPE", "experience")>>
  ELSE (IF Len(Body(a)) > L.maxExperienceEntries
        THEN <<Err("ARRAY_TOO_LARGE", "experience")>> ELSE <<>>)
       \o Flatten([i \in 1..Len(Body(a)) |-> validateWorkExperience(Body(a)[i], i - 1, L)])

ExperienceErrors(d, L) ==
  LET a == Get(d, "experience") IN
  IF ~IsArray(a) THEN <<Err("INVALID_TYPE", "experience")>>
  ELSE IF Len(Body(a)) > L.maxExperienceEntries THEN <<Err("ARRAY_TOO_LARGE", "experience")>>
  ELSE Flatten([i \in 1..Len(Body(a)) |-> validateWorkExperience(Body(a)[i], i - 1, L)])

EducationErrors(d, L) ==
  LET a == Get(d, "education") IN
  IF ~IsArray(a) THEN <<Err("INVALID_TYPE", "education")>>
  ELSE IF Len(Body(a)) > L.maxEducationEntries THEN <<Err("ARRAY_TOO_LARGE", "education")>>
  ELSE Flatten([i \in 1..Len(Body(a)) |-> validateEducation(Body(a)[i], i - 1, L)])

SkillsErrors(d, L) ==
  IF Get(d, "skills") = Undef THEN <<Err("REQUIRED_FIELD_MISSING", "skills")>>
  ELSE validateSkills(Get(d, "skills"), L)

ProjectsErrors(d, L) ==
  LET a == Get(d, "projects") IN
  IF ~IsArray(a) THEN <<Err("INVALID_TYPE", "projects")>>
  ELSE IF Len(Body(a)) > L.maxProjectEntries THEN <<Err("ARRAY_TOO_LARGE", "projects")>>
  ELSE Flatten([i \in 1..Len(Body(a)) |-> validateProject(Body(a)[i], i - 1, L)])

\* the section steps: each pushes its section's errors and goes on to the next
ValidateContact ==
  /\ pc = "contact"
  /\ ran' = Append(ran, "contact")
  /\ errors' = errors \o ContactErrors(data, limits)
  /\ pc' = "summary"
  /\ UNCHANGED <<data, limits, isValid, pdfVars, restVars>>

\* as ValidateSummary, skipping the section once an error has been found
ValidateSummary_StopsEarly ==
  /\ pc = "summary"
  /\ ran' = Append(ran, "summary")
  /\ errors' = errors \o (IF errors # <<>> THEN <<>> ELSE SummaryErrors(data, limits))
  /\ pc' = "experience"
  /\ UNCHANGED <<data, limits, isValid, pdfVars, restVars>>

ValidateSummary ==
  /\ pc = "summary"
  /\ ran' = Append(ran, "summary")
  /\ errors' = errors \o SummaryErrors(data, limits)
  /\ pc' = "experience"
  /\ UNCHANGED <<data, limits, isValid, pdfVars, restVars>>

ValidateExperience ==
  /\ pc = "experience"
  /\ ran' = Append(ran, "experience")
  /\ errors' = errors \o ExperienceErrors(data, limits)
  /\ pc' = "education"
  /\ UNCHANGED <<data, limits, isValid, pdfVars, restVars>>

ValidateEducation ==
  /\ pc = "education"
  /\ ran' = Append(ran, "education")
  /\ errors' = errors \o EducationErrors(data, limits)
  /\ pc' = "skills"
  /\ UNCHANGED <<data, limits, isValid, pdfVars, restVars>>

ValidateSkills ==
  /\ pc = "skills"
  /\ ran' = Append(ran, "skills")
  /\ errors' = errors \o SkillsErrors(data, limits)
  /\ pc' = "projects"
  /\ UNCHANGED <<data, limits, isValid, pdfVars, restVars>>

ValidateProjects ==
  /\ pc = "projects"
  /\ ran' = Append(ran, "projects")
  /\ errors' = errors \o ProjectsErrors(data, limits)
  /\ pc' = "return"
  /\ UNCHANGED <<data, limits, isValid, pdfVars, restVars>>

\* as Return, with isValid not derived from the errors
Return_AlwaysValid ==
  /\ pc = "return"
  /\ isValid' = TRUE
  /\ pc' = "done"
  /\ UNCHANGED <<data, limits, errors, ran, pdfVars, restVars>>

Return ==
  /\ pc = "return"
  /\ isValid' = (Len(errors) = 0)
  /\ pc' = "done"
  /\ UNCHANGED <<data, limits, errors, ran, pdfVars, restVars>>

Next ==
  \/ CheckPresence
  \/ CheckObject
  \/ CheckSize
  \/ CheckStructure
  \/ ValidateContact
  \/ ValidateSummary
  \/ ValidateExperience
  \/ ValidateEducation
  \/ ValidateSkills
  \/ ValidateProjects
  \/ Return

Spec == Init /\ [][Next]_vars

(***************************************************************************)
(* Properties                                                              *)
(***************************************************************************)
Returned == pc = "done"

StartsWith(s, prefix) == Len(s) >= Len(prefix) /\ SubSeq(s, 1, Len(prefix)) = prefix

\* the errors reported on exactly this field path
OnField(field) == SelectSeq(errors, LAMBDA e : e.field = field)

\* the errors whose field path begins with this prefix
Under(prefix) == SelectSeq(errors, LAMBDA e : StartsWith(e.field, prefix))

\* the payload is a non-null, non-array object
ShapeOK(d) == d # Null /\ d # Undef /\ TypeofObject(d) /\ ~IsArray(d)

SizeOK(d, L) == getJsonSize(d) <= L.maxJsonSize

\* the payload passes the three structural checks
StructurallySound(d, L) ==
  ShapeOK(d) /\ SizeOK(d, L) /\ isStructureSafe(d, L.maxObjectDepth)

SectionSteps == {"contact", "summary", "experience", "education", "skills", "projects"}

NoSectionRan == \A i \in 1..Len(ran) : ran[i] \notin SectionSteps

\* C1: for a payload that passes the three structural checks, the returned
\* errors are the errors of contact, summary, experience, education, skills
\* and projects, each section's complete, concatenated in that order.
C1_SectionErrorsAccumulate ==
  (Returned /\ StructurallySound(data, limits)) =>
    errors = ContactErrors(data, limits) \o SummaryErrors(data, limits)
               \o ExperienceErrors(data, limits) \o EducationErrors(data, limits)
               \o SkillsErrors(data, limits) \o ProjectsErrors(data, limits)

\* a returned validation in which an early and a late section both have errors
C1_Witness ==
  /\ Returned /\ StructurallySound(data, limits)
  /\ ContactErrors(data, limits) # <<>>
  /\ ProjectsErrors(data, limits) # <<>>
  /\ Len(errors) = Len(ContactErrors(data, limits)) + Len(ProjectsErrors(data, limits))

\* C2: the structural checks run in the order presence, object, size,
\* structure; the first that fails returns isValid = FALSE with exactly its one
\* error on 'resume', and no later check or section validator has run.
C2_StructuralChecksShortCircuit ==
  Returned =>
    /\ (data = Null \/ data = Undef) =>
         /\ errors = <<Err("REQUIRED_FIELD_MISSING", "resume")>>
         /\ ~isValid /\ ran = <<"presence">>
    /\ (data # Null /\ data # Undef /\ ~ShapeOK(data)) =>
         /\ errors = <<Err("INVALID_TYPE", "resume")>>
         /\ ~isValid /\ ran = <<"presence", "object">>
    /\ (ShapeOK(data) /\ ~SizeOK(data, limits)) =>
         /\ errors = <<Err("SIZE_EXCEEDED", "resume")>>
         /\ ~isValid /\ ran = <<"presence", "object", "size">>
    /\ (ShapeOK(data) /\ SizeOK(data, limits)
          /\ ~isStructureSafe(data, limits.maxObjectDepth)) =>
         /\ errors = <<Err("DEPTH_EXCEEDED", "resume")>>
         /\ ~isValid /\ ran = <<"presence", "object", "size", "structure">>

\* a payload both oversized and too deep was answered with SIZE_EXCEEDED alone
C2_Witness ==
  /\ Returned /\ ShapeOK(data)
  /\ ~SizeOK(data, limits)
  /\ ~isDepthSafe(data, limits.maxObjectDepth)
  /\ errors = <<Err("SIZE_EXCEEDED", "resume")>>

\* C3: a resume whose contact object has no email key gets exactly one error
\* on 'contact.email', of type REQUIRED_FIELD_MISSING.
C3_MissingEmailIsRequiredFieldMissing ==
  (/\ Returned /\ StructurallySound(data, limits)
   /\ Kind(Get(data, "contact")) = "obj"
   /\ Get(Get(data, "contact"), "email") = Undef)
  => OnField("contact.email") = <<Err("REQUIRED_FIELD_MISSING", "contact.email")>>

\* the elements of an array value, or none when it is no array
Elems(v) == IF IsArray(v) THEN Body(v) ELSE <<>>

NotRequiredString(v, maxLength) == validateRequiredString(v, "element", maxLength) # <<>>

\* every invalid element of the string array at fieldName has its own error
\* (and no valid element has one), provided the array is within maxItems
EachElementReported(v, fieldName, maxItems, L) ==
  (IsArray(v) /\ Len(Body(v)) <= maxItems) =>
    \A i \in 1..Len(Body(v)) :
      Len(OnField(Indexed(fieldName, i - 1)))
        = IF NotRequiredString(Body(v)[i], L.maxStringLength) THEN 1 ELSE 0

\* the entries of a section array that validateResume hands to the entry
\* validator and that are objects
EntriesValidated(d, section, maxEntries) ==
  LET a == Elems(Get(d, section)) IN
  IF Len(a) > maxEntries THEN {} ELSE {i \in 1..Len(a) : Kind(a[i]) = "obj"}

\* C4: in every string-array field within its item limit each element is
\* validated on its own, so k invalid elements give k errors, one per index.
C4_EveryInvalidElementReported ==
  (Returned /\ StructurallySound(data, limits)) =>
    /\ Kind(Get(data, "skills")) = "obj" =>
         EachElementReported(Get(Get(data, "skills"), "skills"), "skills.skills",
                             limits.maxSkillsCount, limits)
    /\ \A i \in EntriesValidated(data, "experience", limits.maxExperienceEntries) :
         EachElementReported(Get(Body(Get(data, "experience"))[i], "description"),
                             Indexed("experience", i - 1) \o ".description",
                             limits.maxDescriptionPoints, limits)
    /\ \A i \in EntriesValidated(data, "projects", limits.maxProjectEntries) :
         /\ EachElementReported(Get(Body(Get(data, "projects"))[i], "description"),
                                Indexed("projects", i - 1) \o ".description",
                                limits.maxDescriptionPoints, limits)
         /\ EachElementReported(Get(Body(Get(data, "projects"))[i], "techStack"),
                                Indexed("projects", i - 1) \o ".techStack",
                                limits.maxArrayLength, limits)

\* the premise of C5 on one field, with Opt the condition on an optional string
ReqText(v, maxLength) ==
  /\ IsString(v)
  /\ Trim(Body(v)) # <<>>
  /\ StrLen(Body(v)) <= maxLength
  /\ isSafeString(Body(v))

TextList(v, maxItems, maxLength) ==
  /\ IsArray(v)
  /\ Len(Body(v)) <= maxItems
  /\ \A i \in 1..Len(Body(v)) : ReqText(Body(v)[i], maxLength)

\* an optional string as C5 has it: absent, or a string within its limit that
\* passes the safe-content predicate
OptWithinLimits(v, maxLength) ==
  \/ v = Undef \/ v = Null
  \/ IsString(v) /\ StrLen(Body(v)) <= maxLength /\ isSafeString(Body(v))

\* an optional string that, when not empty, is also not blank
OptNotBlank(v, maxLength) ==
  /\ OptWithinLimits(v, maxLength)
  /\ IsString(v) => (Body(v) = <<>> \/ Trim(Body(v)) # <<>>)

AllOf(v, check(_)) == IsArray(v) /\ \A i \in 1..Len(Body(v)) : check(Body(v)[i])

ResumeWithinLimits(d, L, Opt(_, _)) ==
  LET n == L.maxStringLength
      contact == Get(d, "contact")
      skills == Get(d, "skills")
      experienceOK(e) ==
        /\ Kind(e) = "obj"
        /\ ReqText(Get(e, "company"), n) /\ ReqText(Get(e, "role"), n)
        /\ ReqText(Get(e, "startDate"), n)
        /\ Opt(Get(e, "location"), n) /\ Opt(Get(e, "endDate"), n)
        /\ TextList(Get(e, "description"), L.maxDescriptionPoints, n)
      educationOK(e) ==
        /\ Kind(e) = "obj"
        /\ ReqText(Get(e, "institution"), n) /\ ReqText(Get(e, "degree"), n)
        /\ ReqText(Get(e, "startDate"), n)
        /\ Opt(Get(e, "fieldOfStudy"), n) /\ Opt(Get(e, "endDate"), n)
        /\ Opt(Get(e, "cgpa"), n)
        /\ \/ Get(e, "relevantCourseWorks") = Undef
           \/ AllOf(Get(e, "relevantCourseWorks"), LAMBDA c : OptWithinLimits(c, n) /\ IsString(c))
      projectOK(e) ==
        /\ Kind(e) = "obj"
        /\ ReqText(Get(e, "name"), n)
        /\ TextList(Get(e, "description"), L.maxDescriptionPoints, n)
        /\ \/ Get(e, "techStack") = Undef
           \/ TextList(Get(e, "techStack"), L.maxArrayLength, n)
        /\ Opt(Get(e, "link"), n)
  IN
  /\ Kind(contact) = "obj"
  /\ ReqText(Get(contact, "fullName"), n) /\ ReqText(Get(contact, "email"), n)
  /\ ReqText(Get(contact, "phone"), n) /\ ReqText(Get(contact, "location"), n)
  /\ Opt(Get(contact, "linkedin"), n) /\ Opt(Get(contact, "github"), n)
  /\ Opt(Get(contact, "portfolio"), n) /\ Opt(Get(contact, "twitter"), n)
  /\ Kind(Get(d, "summary")) = "obj"
  /\ ReqText(Get(Get(d, "summary"), "summary"), L.maxSummaryLength)
  /\ AllOf(Get(d, "experience"), experienceOK)
  /\ Len(Elems(Get(d, "experience"))) <= L.maxExperienceEntries
  /\ AllOf(Get(d, "education"), educationOK)
  /\ Len(Elems(Get(d, "education"))) <= L.maxEducationEntries
  /\ Kind(skills) = "obj"
  /\ TextList(Get(skills, "skills"), L.maxSkillsCount, n)
  /\ AllOf(Get(d, "projects"), projectOK)
  /\ Len(Elems(Get(d, "projects"))) <= L.maxProjectEntries

\* C5 as stated: a resume with all required fields present, every string
\* within its length limit and safe, and every array within its limit is valid.
C5_WithinLimitsIsValid ==
  (/\ Returned /\ StructurallySound(data, limits)
   /\ ResumeWithinLimits(data, limits, OptWithinLimits))
  => (isValid /\ errors = <<>>)

\* C5 amended: a resume that passes the structural checks, with all required
\* strings present and not blank, every optional string absent, null, empty or
\* not blank, every string within its length limit and safe, and every array
\* within its limit, is valid with no errors.
C5_WithinLimitsAndNotBlankIsValid ==
  (/\ Returned /\ StructurallySound(data, limits)
   /\ ResumeWithinLimits(data, limits, OptNotBlank))
  => (isValid /\ errors = <<>>)

\* such a resume, with strings exactly at the length limit and optional fields
\* given, was returned valid
C5_Witness ==
  /\ Returned /\ StructurallySound(data, limits)
  /\ ResumeWithinLimits(data, limits, OptNotBlank)
  /\ Get(Get(data, "contact"), "portfolio") = sMax(limits)
  /\ Get(Get(data, "contact"), "linkedin") = sEmpty
  /\ isValid

\* C6: on every return path isValid is true exactly when no error is returned.
C6_IsValidIffNoErrors == Returned => (isValid <=> errors = <<>>)

\* validate returned isValid = TRUE under limits that are not the defaults
C6_Witness ==
  Returned /\ isValid /\ errors = <<>> /\ limits # DEFAULT_VALIDATION_LIMITS

\* an array section over its entry limit is answered with one ARRAY_TOO_LARGE
\* on the section and with no error on any of its entries
OverLimit(section, maxEntries) == Len(Elems(Get(data, section))) > maxEntries

RejectedWholesale(section) ==
  /\ OnField(section) = <<Err("ARRAY_TOO_LARGE", section)>>
  /\ Under(section \o "[") = <<>>

\* C7: an experience array with more than maxExperienceEntries entries gets
\* exactly one ARRAY_TOO_LARGE on 'experience' and no error on a path under
\* 'experience['; likewise education and projects; and the errors of every
\* other section are reported all the same.  (Of a resume, that is, a payload
\* that passed the structural checks.)
C7_OverLimitRejectedWholesale ==
  (Returned /\ StructurallySound(data, limits)) =>
    /\ OverLimit("experience", limits.maxExperienceEntries) => RejectedWholesale("experience")
    /\ OverLimit("education", limits.maxEducationEntries) => RejectedWholesale("education")
    /\ OverLimit("projects", limits.maxProjectEntries) => RejectedWholesale("projects")
    /\ (\/ OverLimit("experience", limits.maxExperienceEntries)
        \/ OverLimit("education", limits.maxEducationEntries)
        \/ OverLimit("projects", limits.maxProjectEntries)) =>
         /\ Under("contact") = ContactErrors(data, limits)
         /\ Under("summary") = SummaryErrors(data, limits)
         /\ Under("experience") = ExperienceErrors(data, limits)
         /\ Under("education") = EducationErrors(data, limits)
         /\ Under("skills") = SkillsErrors(data, limits)
         /\ Under("projects") = ProjectsErrors(data, limits)

\* an over-limit experience array whose entries are themselves invalid, in a
\* resume whose contact section has errors too
C7_Witness ==
  /\ Returned /\ StructurallySound(data, limits)
  /\ OverLimit("experience", limits.maxExperienceEntries)
  /\ validateWorkExperience(Body(Get(data, "experience"))[1], 0, limits) # <<>>
  /\ ContactErrors(data, limits) # <<>>
  /\ Under("contact") # <<>>

\* C8: a resume whose skills.skills array, within the item limit, holds a
\* string with a NUL byte (itself within the length limit) is invalid and has
\* an UNSAFE_CONTENT error on that element.
C8_NulSkillIsUnsafeContent ==
  (/\ Returned /\ StructurallySound(data, limits)
   /\ Kind(Get(data, "skills")) = "obj"
   /\ Len(Elems(Get(Get(data, "skills"), "skills"))) <= limits.maxSkillsCount)
  => LET skills == Elems(Get(Get(data, "skills"), "skills")) IN
     \A i \in 1..Len(skills) :
       (/\ IsString(skills[i]) /\ IncludesNul(Body(skills[i]))
        /\ StrLen(Body(skills[i])) <= limits.maxStringLength)
       => /\ ~isValid
          /\ OnField(Indexed("skills.skills", i - 1))
               = <<Err("UNSAFE_CONTENT", Indexed("skills.skills", i - 1))>>

\* some plain object inside v, at any level through objects and arrays, has
\* an own key that is a reserved name
RECURSIVE ReservedKeyWithin(_)
ReservedKeyWithin(v) ==
  /\ IsContainer(v)
  /\ \/ Kind(v) = "obj" /\ \E i \in 1..Len(Body(v)) : Body(v)[i][1] \in DANGEROUS_KEYS
     \/ \E i \in 1..Len(Children(v)) : ReservedKeyWithin(Children(v)[i])

\* C9 as stated: any payload holding a reserved key at any level is rejected
\* with the single error DEPTH_EXCEEDED and no section validator runs.
C9_ReservedKeyIsDepthExceeded ==
  (Returned /\ ReservedKeyWithin(data)) =>
    /\ errors = <<Err("DEPTH_EXCEEDED", "resume")>>
    /\ NoSectionRan

\* C9 amended: any payload holding a reserved key at any level is rejected
\* with a single error and no section validator runs; the error is
\* DEPTH_EXCEEDED when the payload is a non-null, non-array object within the
\* size limit, and otherwise that of the earlier check that failed.
C9_ReservedKeyRejectedAtItsCheck ==
  (Returned /\ ReservedKeyWithin(data)) =>
    /\ Len(errors) = 1 /\ ~isValid /\ NoSectionRan
    /\ (ShapeOK(data) /\ SizeOK(data, limits)) =>
         errors = <<Err("DEPTH_EXCEEDED", "resume")>>

\* a payload within the depth limit whose reserved key sits in an object
\* inside an array was rejected with DEPTH_EXCEEDED
C9_Witness ==
  /\ Returned /\ ShapeOK(data) /\ SizeOK(data, limits)
  /\ isDepthSafe(data, limits.maxObjectDepth)
  /\ IsArray(Get(data, "extra")) /\ ReservedKeyWithin(Get(data, "extra"))
  /\ errors = <<Err("DEPTH_EXCEEDED", "resume")>>

\* the nesting levels of v, v itself being the first
RECURSIVE Levels(_)
Levels(v) ==
  IF ~IsContainer(v) THEN 0
  ELSE 1 + MaxSeq([i \in 1..Len(Children(v)) |-> Levels(Children(v)[i])], 0)

\* C10: counting the top-level object as the first level, a payload (that
\* reaches the depth check) nested more than maxObjectDepth levels deep is
\* rejected with DEPTH_EXCEEDED, and one nested exactly maxObjectDepth levels
\* deep passes the depth check.
C10_DepthCountsTopLevel ==
  (Returned /\ ShapeOK(data) /\ SizeOK(data, limits)) =>
    /\ Levels(data) > limits.maxObjectDepth => errors = <<Err("DEPTH_EXCEEDED", "resume")>>
    /\ Levels(data) = limits.maxObjectDepth => isDepthSafe(data, limits.maxObjectDepth)

(***************************************************************************)
(* The section transformer (transformers/resume-to-document.transformer).  *)
(* Texts are strings; U+2013 (en dash) is written "--" and U+2022 (bullet) *)
(* is written "*".  An optional string that is absent is "", an optional   *)
(* array that is absent is <<>>: the transformer only tests them for       *)
(* truthiness and length.                                                  *)
(***************************************************************************)

\* string.length > 0, the truthiness of a string
Truthy(s) == s # ""

\* s.substring(from, to), zero-based, `to` exclusive
substring(s, from, to) == SubSeq(s, from + 1, to)

\* s.indexOf(k): the zero-based position of the first occurrence, or -1
indexOf(s, k) ==
  LET hits == { i \in 0..(Len(s) - Len(k)) : substring(s, i, i + Len(k)) = k }
  IN IF hits = {} THEN -1 ELSE CHOOSE i \in hits : \A j \in hits : i <= j

includes(s, k) == indexOf(s, k) >= 0

\* s.trim(), the whitespace of the inputs being the space
trim(s) ==
  LET inked == { i \in 1..Len(s) : SubSeq(s, i, i) # " " }
  IN IF inked = {} THEN ""
     ELSE SubSeq(s, CHOOSE i \in inked : \A j \in inked : i <= j,
                    CHOOSE i \in inked : \A j \in inked : i >= j)

UpperCaseLetters == "ABCDEFGHIJKLMNOPQRSTUVWXYZ"

LowerCaseLetters == "abcdefghijklmnopqrstuvwxyz"

RECURSIVE toLowerCase(_)
toLowerCase(s) ==
  IF s = "" THEN ""
  ELSE LET c == SubSeq(s, 1, 1)
           at == { i \in 1..26 : SubSeq(UpperCaseLetters, i, i) = c }
       IN (IF at = {} THEN c
           ELSE LET i == CHOOSE i \in at : TRUE IN SubSeq(LowerCaseLetters, i, i))
          \o toLowerCase(SubSeq(s, 2, Len(s)))

\* parts.join(sep)
RECURSIVE join(_, _)
join(parts, sep) ==
  IF Len(parts) = 0 THEN ""
  ELSE IF Len(parts) = 1 THEN parts[1]
  ELSE parts[1] \o sep \o join(Tail(parts), sep)

\* the strings of `parts` that are truthy, in order
Present(parts) == SelectSeq(parts, Truthy)

\* the Document elements
Heading(level, text) ==
  [type |-> "HEADING", level |-> level, text |-> text, items |-> <<>>]

Paragraph(text) ==
  [type |-> "PARAGRAPH", level |-> 0, text |-> text, items |-> <<>>]

TextLine(text) ==
  [type |-> "TEXT_LINE", level |-> 0, text |-> text, items |-> <<>>]

List(texts) ==
  [type |-> "LIST", level |-> 0, text |-> "",
   items |-> [i \in 1..Len(texts) |-> [text |-> texts[i]]]]

SectionBreak ==
  [type |-> "SECTION_BREAK", level |-> 0, text |-> "", items |-> <<>>]

VALID_SECTION_KEYS ==
  <<"contact", "summary", "experience", "education", "skills", "projects",
    "experienceProjects">>

DEFAULT_SECTION_ORDER ==
  <<"contact", "summary", "experience", "education", "skills", "projects">>

Range(s) == { s[i] : i \in 1..Len(s) }

\* the loop over sectionOrder: the valid keys, each at its first occurrence
orderedKeys(keys) ==
  LET keep(p) == /\ p[2] \in Range(VALID_SECTION_KEYS)
                 /\ \A j \in 1..(p[1] - 1) : keys[j] # p[2]
      kept == SelectSeq([i \in 1..Len(keys) |-> <<i, keys[i]>>], keep)
  IN [i \in 1..Len(kept) |-> kept[i][2]]

\* as validateSectionOrder, appending the missing keys whatever the order holds
validateSectionOrder_AppendsAll(so) ==
  IF so[1] # "arr" THEN DEFAULT_SECTION_ORDER
  ELSE LET finalOrder ==
             <<"contact">> \o SelectSeq(orderedKeys(so[2]), LAMBDA k : k # "contact")
           missing(k) == k \notin Range(finalOrder)
       IN finalOrder \o SelectSeq(DEFAULT_SECTION_ORDER, missing)

\* as validateSectionOrder, leaving contact where the input has it
validateSectionOrder_ContactInPlace(so) ==
  IF so[1] # "arr" THEN DEFAULT_SECTION_ORDER
  ELSE LET finalOrder == orderedKeys(so[2])
           hasExperienceProjects == "experienceProjects" \in Range(finalOrder)
           missing(k) == /\ ~(hasExperienceProjects /\ k \in {"experience", "projects"})
                         /\ k \notin Range(finalOrder)
       IN finalOrder \o SelectSeq(DEFAULT_SECTION_ORDER, missing)

\* sectionOrder is <<"undef", <<>>>> when absent, <<"arr", keys>> when an array
validateSectionOrder(so) ==
  IF so[1] # "arr" THEN DEFAULT_SECTION_ORDER
  ELSE LET finalOrder ==
             <<"contact">> \o SelectSeq(orderedKeys(so[2]), LAMBDA k : k # "contact")
           hasExperienceProjects == "experienceProjects" \in Range(finalOrder)
           missing(k) == /\ ~(hasExperienceProjects /\ k \in {"experience", "projects"})
                         /\ k \notin Range(finalOrder)
       IN finalOrder \o SelectSeq(DEFAULT_SECTION_ORDER, missing)

\* as transformContactSection, the job title placed above the name
transformContactSection_TitleAboveName(r) ==
  LET contact == r.contact
      line1Parts == Present(<<contact.email, contact.phone, contact.location>>)
      line2Parts == Present(<<contact.linkedin, contact.github, contact.portfolio,
                              contact.twitter>>)
  IN (IF Truthy(contact.jobTitle) THEN <<TextLine(contact.jobTitle)>> ELSE <<>>)
     \o <<Heading(1, contact.fullName)>>
     \o (IF Len(line1Parts) > 0 THEN <<TextLine(join(line1Parts, " | "))>> ELSE <<>>)
     \o (IF Len(line2Parts) > 0 THEN <<TextLine(join(line2Parts, " | "))>> ELSE <<>>)

transformContactSection(r) ==
  LET contact == r.contact
      line1Parts == Present(<<contact.email, contact.phone, contact.location>>)
      line2Parts == Present(<<contact.linkedin, contact.github, contact.portfolio,
                              contact.twitter>>)
  IN <<Heading(1, contact.fullName)>>
     \o (IF Truthy(contact.jobTitle) THEN <<TextLine(contact.jobTitle)>> ELSE <<>>)
     \o (IF Len(line1Parts) > 0 THEN <<TextLine(join(line1Parts, " | "))>> ELSE <<>>)
     \o (IF Len(line2Parts) > 0 THEN <<TextLine(join(line2Parts, " | "))>> ELSE <<>>)

transformSummarySection(r) ==
  <<Heading(2, "Professional Summary"), Paragraph(r.summary.summary)>>

\* the elements the Experience section emits for one entry, spacer excluded
ExperienceEntry(exp) ==
  <<Heading(3, exp.role),
    TextLine(IF Truthy(exp.location) THEN exp.company \o " - " \o exp.location
             ELSE exp.company),
    TextLine(IF Truthy(exp.endDate) THEN exp.startDate \o " - " \o exp.endDate
             ELSE exp.startDate \o " - Present")>>
  \o (IF Len(exp.description) > 0 THEN <<List(exp.description)>> ELSE <<>>)

\* the blank line after every entry but the last of a forEach over n entries
Spacer(i, n) == IF i < n THEN <<TextLine("")>> ELSE <<>>

transformExperienceSection(r) ==
  IF Len(r.experience) = 0 THEN <<>>
  ELSE <<Heading(2, "Work Experience")>>
       \o Flatten([i \in 1..Len(r.experience) |->
                     ExperienceEntry(r.experience[i]) \o Spacer(i, Len(r.experience))])

EducationEntry(edu) ==
  LET dateLine == IF Truthy(edu.endDate) THEN edu.startDate \o " - " \o edu.endDate
                  ELSE edu.startDate \o " - Present"
      meta == <<dateLine>>
              \o (IF Truthy(edu.cgpa) THEN <<"CGPA: " \o edu.cgpa>> ELSE <<>>)
  IN <<Heading(3, IF Truthy(edu.fieldOfStudy)
                  THEN edu.degree \o " in " \o edu.fieldOfStudy ELSE edu.degree),
       TextLine(edu.institution),
       TextLine(join(meta, " * "))>>
     \o (IF Len(edu.relevantCourseWork) > 0
         THEN <<TextLine("Relevant Coursework: " \o join(edu.relevantCourseWork, ", "))>>
         ELSE <<>>)

transformEducationSection(r) ==
  IF Len(r.education) = 0 THEN <<>>
  ELSE <<Heading(2, "Education")>>
       \o Flatten([i \in 1..Len(r.education) |->
                     EducationEntry(r.education[i]) \o Spacer(i, Len(r.education))])

\* Object.entries(SKILL_CATEGORIES): <<category, keywords>> in insertion order
SKILL_CATEGORIES ==
  << <<"Frontend",
       <<"react", "vue", "angular", "svelte", "next", "nuxt", "gatsby",
         "typescript", "javascript", "html", "css", "sass", "scss", "tailwind",
         "redux", "mobx", "webpack", "vite", "babel", "jest", "testing-library">> >>,
     <<"Backend",
       <<"node", "express", "fastify", "nest", "koa",
         "python", "django", "flask", "fastapi",
         "java", "spring", "kotlin",
         "go", "golang", "gin",
         "ruby", "rails",
         "php", "laravel",
         "graphql", "rest", "api", "grpc">> >>,
     <<"Database",
       <<"postgres", "postgresql", "mysql", "sqlite", "mariadb",
         "mongodb", "dynamodb", "redis", "elasticsearch",
         "sql", "nosql", "prisma", "typeorm", "sequelize", "mongoose">> >>,
     <<"Cloud",
       <<"aws", "azure", "gcp", "google cloud",
         "docker", "kubernetes", "k8s",
         "terraform", "serverless", "lambda", "cloudformation">> >>,
     <<"DevOps",
       <<"jenkins", "github actions", "gitlab ci", "circleci",
         "ci/cd", "ansible", "argocd", "prometheus", "grafana">> >>,
     <<"Tools",
       <<"git", "github", "gitlab", "bitbucket",
         "jira", "confluence", "slack",
         "vscode", "vim", "postman", "figma",
         "linux", "bash", "shell">> >> >>

\* the own properties of CATEGORY_ALIASES
CATEGORY_ALIASES ==
  << <<"frontend", "Frontend">>, <<"backend", "Backend">>,
     <<"database", "Database">>, <<"cloud", "Cloud">>, <<"devops", "DevOps">>,
     <<"ci/cd", "DevOps">>, <<"cicd", "DevOps">>, <<"mobile", "Mobile">>,
     <<"ios", "Mobile">>, <<"android", "Mobile">>, <<"api", "API">>,
     <<"apis", "API">>, <<"testing", "Testing">>, <<"qa", "Testing">>,
     <<"security", "Security">>, <<"auth", "Security">>, <<"data", "Data">>,
     <<"analytics", "Data">>, <<"ml", "AI & ML">>, <<"ai", "AI & ML">>,
     <<"ai & ml", "AI & ML">>, <<"ai&ml", "AI & ML">>, <<"devtools", "Tools">>,
     <<"cli", "Tools">>, <<"tools", "Tools">>, <<"os", "Operating Systems">>,
     <<"linux", "Operating Systems">>, <<"windows", "Operating Systems">>,
     <<"operating systems", "Operating Systems">>,
     <<"networking", "Networking">>, <<"architecture", "Architecture">>,
     <<"system design", "Architecture">>, <<"cms", "CMS">>,
     <<"game", "Game Development">>, <<"gamedev", "Game Development">>,
     <<"game development", "Game Development">>, <<"other", "Other">> >>

\* CATEGORY_ALIASES[key] || 'Other'.  CATEGORY_ALIASES is an object literal,
\* so a key it does not own is looked up on Object.prototype: of the names
\* toLowerCase can return, 'constructor' gives the function Object and
\* '__proto__' gives Object.prototype itself, both truthy and neither a
\* string; they are written here as the strings that name them.
AliasOrOther(key) ==
  LET own == { i \in 1..Len(CATEGORY_ALIASES) : CATEGORY_ALIASES[i][1] = key }
  IN IF own # {} THEN CATEGORY_ALIASES[CHOOSE i \in own : TRUE][2]
     ELSE IF key = "constructor" THEN "[Function: Object]"
     ELSE IF key = "__proto__" THEN "[Object: null prototype] {}"
     ELSE "Other"

categorizeSkillByKeyword(skill) ==
  LET normalizedSkill == trim(toLowerCase(skill))
      matches(i) == \E k \in 1..Len(SKILL_CATEGORIES[i][2]) :
                      includes(normalizedSkill, SKILL_CATEGORIES[i][2][k])
      hits == { i \in 1..Len(SKILL_CATEGORIES) : matches(i) }
  IN IF hits = {} THEN "Other"
     ELSE SKILL_CATEGORIES[CHOOSE i \in hits : \A j \in hits : i <= j][1]

parseSkillWithCategory(skillInput) ==
  LET trimmed == trim(skillInput)
      colonIndex == indexOf(trimmed, ": ")
      rawCategory == trim(substring(trimmed, 0, colonIndex))
      skillName == trim(substring(trimmed, colonIndex + 2, Len(trimmed)))
  IN IF colonIndex > 0 /\ Len(rawCategory) > 0 /\ Len(skillName) > 0
     THEN [category |-> AliasOrOther(toLowerCase(rawCategory)), skill |-> skillName]
     ELSE [category |-> categorizeSkillByKeyword(trimmed), skill |-> trimmed]

categoryOrder ==
  <<"Frontend", "Backend", "Mobile", "Database", "Cloud", "DevOps", "API",
    "Testing", "Security", "Data", "AI & ML", "Tools", "Operating Systems",
    "Networking", "Architecture", "CMS", "Game Development", "Other">>

\* categorizedSkills.get(category): the skills parsed into it, in input order
SkillsOf(category, parsed) ==
  LET mine == SelectSeq(parsed, LAMBDA p : p.category = category)
  IN [i \in 1..Len(mine) |-> mine[i].skill]

transformSkillsSection(r) ==
  LET skills == r.skills.skills
      parsed == [i \in 1..Len(skills) |-> parseSkillWithCategory(skills[i])]
      line(category) ==
        IF Len(SkillsOf(category, parsed)) > 0
        THEN <<TextLine(category \o ": " \o join(SkillsOf(category, parsed), ", "))>>
        ELSE <<>>
  IN IF Len(skills) = 0 THEN <<>>
     ELSE <<Heading(2, "Skills")>>
          \o Flatten([c \in 1..Len(categoryOrder) |-> line(categoryOrder[c])])

\* the elements the Projects section emits for one entry, spacer excluded
ProjectEntry(project) ==
  <<Heading(3, project.name)>>
  \o (IF Len(project.techStack) > 0
      THEN <<TextLine(join(project.techStack, ", "))>> ELSE <<>>)
  \o (IF Truthy(project.link) THEN <<TextLine(project.link)>> ELSE <<>>)
  \o (IF Len(project.description) > 0 THEN <<List(project.description)>> ELSE <<>>)

transformProjectsSection(r) ==
  IF Len(r.projects) = 0 THEN <<>>
  ELSE <<Heading(2, "Projects")>>
       \o Flatten([i \in 1..Len(r.projects) |->
                     ProjectEntry(r.projects[i]) \o Spacer(i, Len(r.projects))])

\* the elements the combined section emits for one experience entry
CombinedExperienceEntry(exp) ==
  LET dateRange == IF Truthy(exp.endDate) /\ trim(exp.endDate) # ""
                   THEN exp.startDate \o " -- " \o exp.endDate
                   ELSE exp.startDate
      meta == (IF Truthy(exp.location) THEN <<exp.location>> ELSE <<>>)
              \o <<dateRange>>
  IN <<Heading(3, exp.role \o " at " \o exp.company)>>
     \o (IF Len(meta) > 0 THEN <<TextLine(join(meta, " * "))>> ELSE <<>>)
     \o <<List(exp.description)>>

\* the elements the combined section emits for one project entry
CombinedProjectEntry(project) ==
  LET meta == (IF Len(project.techStack) > 0
               THEN <<join(project.techStack, ", ")>> ELSE <<>>)
              \o (IF Truthy(project.link) THEN <<project.link>> ELSE <<>>)
  IN <<Heading(3, project.name)>>
     \o (IF Len(meta) > 0 THEN <<TextLine(join(meta, " * "))>> ELSE <<>>)
     \o <<List(project.description)>>

transformCombinedExperienceProjectsSection(r) ==
  <<Heading(2, "Experience & Projects")>>
  \o Flatten([i \in 1..Len(r.experience) |->
                CombinedExperienceEntry(r.experience[i])
                \o (IF i < Len(r.experience) \/ Len(r.projects) > 0
                    THEN <<TextLine("")>> ELSE <<>>)])
  \o Flatten([i \in 1..Len(r.projects) |->
                CombinedProjectEntry(r.projects[i]) \o Spacer(i, Len(r.projects))])

\* sectionTransformers[sectionKey]()
sectionTransformers(sectionKey, r) ==
  CASE sectionKey = "contact" -> transformContactSection(r)
    [] sectionKey = "summary" -> transformSummarySection(r)
    [] sectionKey = "experience" -> transformExperienceSection(r)
    [] sectionKey = "education" -> transformEducationSection(r)
    [] sectionKey = "skills" -> transformSkillsSection(r)
    [] sectionKey = "projects" -> transformProjectsSection(r)
    [] sectionKey = "experienceProjects" -> transformCombinedExperienceProjectsSection(r)

(***************************************************************************)
(* The paginating renderer (renderer/pdf-renderer, renderer-config).       *)
(* Lengths are in thousandths of a point, so that 9.5, 1.5 and the line    *)
(* height fontSize * 1.15 are exact integers.  `draws` records the text    *)
(* calls made on the PDFKit document, in the order they are made.          *)
(***************************************************************************)
PAGE_CONFIG ==
  [width |-> 612000, height |-> 792000, marginTop |-> 54000,
   marginBottom |-> 54000, marginLeft |-> 54000, marginRight |-> 54000]

CONTENT_WIDTH == PAGE_CONFIG.width - PAGE_CONFIG.marginLeft - PAGE_CONFIG.marginRight

BULLET_MARKER == "-"

DENSITY_PRESETS ==
  [normal |->
     [fontSizes |-> [h1 |-> 16000, h2 |-> 14000, h3 |-> 12000, body |-> 11000,
                     contactInfo |-> 9500],
      spacing |-> [sectionBreak |-> 12000, afterHeading |-> 4000,
                   afterNameHeading |-> 2000, afterParagraph |-> 6000,
                   afterTextLine |-> 2000, afterContactLine |-> 8000,
                   afterList |-> 6000, listItemIndent |-> 15000,
                   betweenListItems |-> 2000, minSpaceForParagraph |-> 40000,
                   minSpaceForListItem |-> 30000]],
   compact |->
     [fontSizes |-> [h1 |-> 15000, h2 |-> 13000, h3 |-> 11000, body |-> 10000,
                     contactInfo |-> 9000],
      spacing |-> [sectionBreak |-> 10000, afterHeading |-> 3000,
                   afterNameHeading |-> 1500, afterParagraph |-> 5000,
                   afterTextLine |-> 2000, afterContactLine |-> 7000,
                   afterList |-> 5000, listItemIndent |-> 15000,
                   betweenListItems |-> 1500, minSpaceForParagraph |-> 40000,
                   minSpaceForListItem |-> 30000]],
   ultraCompact |->
     [fontSizes |-> [h1 |-> 14000, h2 |-> 12000, h3 |-> 10000, body |-> 9000,
                     contactInfo |-> 8500],
      spacing |-> [sectionBreak |-> 8000, afterHeading |-> 2000,
                   afterNameHeading |-> 1000, afterParagraph |-> 4000,
                   afterTextLine |-> 2000, afterContactLine |-> 6000,
                   afterList |-> 4000, listItemIndent |-> 15000,
                   betweenListItems |-> 1000, minSpaceForParagraph |-> 40000,
                   minSpaceForListItem |-> 30000]]]

\* DENSITY_PRESETS[preset]; the key 'ultra-compact' is written ultraCompact
getConfigForDensity(preset) ==
  CASE preset = "normal" -> DENSITY_PRESETS.normal
    [] preset = "compact" -> DENSITY_PRESETS.compact
    [] preset = "ultra-compact" -> DENSITY_PRESETS.ultraCompact

\* fontSize * LINE_HEIGHT, LINE_HEIGHT = 1.15
calculateLineHeight(fontSize) == (fontSize * 115) \div 100

\* the bottom of the content area, PAGE_CONFIG.height - PAGE_CONFIG.marginBottom
Bottom == PAGE_CONFIG.height - PAGE_CONFIG.marginBottom

\* as checkPageBreak, adding the page without moving the cursor
checkPageBreak_KeepsCursor(y, requiredSpace) ==
  LET availableSpace == PAGE_CONFIG.height - PAGE_CONFIG.marginBottom - y
  IN IF availableSpace < requiredSpace
     THEN [currentY |-> y, addPage |-> TRUE]
     ELSE [currentY |-> y, addPage |-> FALSE]

\* the cursor after the check, and whether state.doc.addPage() was called
checkPageBreak(y, requiredSpace) ==
  LET availableSpace == PAGE_CONFIG.height - PAGE_CONFIG.marginBottom - y
  IN IF availableSpace < requiredSpace
     THEN [currentY |-> PAGE_CONFIG.marginTop, addPage |-> TRUE]
     ELSE [currentY |-> y, addPage |-> FALSE]

\* The text engine of the PDFKit document.  The width of a text is taken to
\* be its length: CharsPerLine characters fill a line of the content width.
CharsPerLine == 8

WrappedLines(text) == (Len(text) + CharsPerLine - 1) \div CharsPerLine

\* state.doc.y after doc.text(text, x, y, {lineGap: lineHeight - fontSize}):
\* each wrapped line advances y by lineHeight, and a line that does not fit
\* above the bottom margin is continued at the top of a page the document
\* adds by itself.  `pages` counts those pages.
RECURSIVE TextEnd(_, _, _)
TextEnd(y, lines, lineHeight) ==
  IF lines = 0 THEN [y |-> y, pages |-> 0]
  ELSE IF y + lineHeight > Bottom
       THEN LET rest == TextEnd(PAGE_CONFIG.marginTop + lineHeight, lines - 1, lineHeight)
            IN [y |-> rest.y, pages |-> rest.pages + 1]
       ELSE TextEnd(y + lineHeight, lines - 1, lineHeight)

\* one doc.text call, as `draws` records it: the element (its position in
\* the array) and list item (0 when none) it draws, the text, face, size and
\* place, the cursor before checkPageBreak, the space that check was asked
\* for, whether it added a page, and the spacing added after the element
Draw(el, listItem, type, text, font, fontSize, x, y, cursor, required, addPage, after) ==
  [element |-> el, item |-> listItem, type |-> type, text |-> text, font |-> font,
   fontSize |-> fontSize, x |-> x, y |-> y, cursor |-> cursor,
   required |-> required, addPage |-> addPage, after |-> after]

(***************************************************************************)
(* Inputs of the transformer and the renderer: resumes that pass           *)
(* validation, section orders, density presets, and documents given to the *)
(* renderer directly.                                                      *)
(***************************************************************************)
MaxOrderLength == 2

MaxSkills == 3

MaxDocLength == 2

MaxTailLength == 1

FillFrom == 23

FillTo == 32

contactPlain ==
  [fullName |-> "Ada Low", jobTitle |-> "", email |-> "ada@low.io",
   phone |-> "555 0100", location |-> "Oslo", linkedin |-> "", github |-> "",
   portfolio |-> "", twitter |-> ""]

contactFull ==
  [fullName |-> "Ada Low", jobTitle |-> "Engineer", email |-> "ada@low.io",
   phone |-> "555 0100", location |-> "Oslo", linkedin |-> "",
   github |-> "github.com/ada", portfolio |-> "", twitter |-> "x.com/ada"]

contactLinked ==
  [fullName |-> "Ada Low", jobTitle |-> "", email |-> "a.low@uio.no",
   phone |-> "", location |-> "", linkedin |-> "https://in.com/ada",
   github |-> "www.hub.dev/ada", portfolio |-> "http://cv.dev", twitter |-> ""]

contactShouted ==
  [fullName |-> "Ada Low", jobTitle |-> "", email |-> "ADA@LOW.IO",
   phone |-> "", location |-> "", linkedin |-> "",
   github |-> "", portfolio |-> "HTTPS://cv.dev", twitter |-> "Http://x.com/ada"]

summaryText == [summary |-> "Builds typesetting tools"]

expOpen ==
  [company |-> "Acme", role |-> "Developer", location |-> "Bergen",
   startDate |-> "2021", endDate |-> "", description |-> <<"Built x", "Ran y">>]

expClosed ==
  [company |-> "Init", role |-> "Intern", location |-> "",
   startDate |-> "2019", endDate |-> "2020", description |-> <<>>]

eduPlain ==
  [institution |-> "NTNU", degree |-> "MSc", fieldOfStudy |-> "",
   startDate |-> "2014", endDate |-> "2019", cgpa |-> "",
   relevantCourseWork |-> <<>>]

eduFull ==
  [institution |-> "UiO", degree |-> "BSc", fieldOfStudy |-> "Logic",
   startDate |-> "2011", endDate |-> "", cgpa |-> "3.9",
   relevantCourseWork |-> <<"Sets", "Proofs">>]

projFull ==
  [name |-> "QuickCV", description |-> <<"Renders">>,
   techStack |-> <<"TypeScript", "PDFKit">>, link |-> "cv.dev"]

projBare ==
  [name |-> "Toy", description |-> <<>>, techStack |-> <<>>, link |-> ""]

TransformerResume(contact, experience, education, skills, projects) ==
  [contact |-> contact, summary |-> summaryText, experience |-> experience,
   education |-> education, skills |-> [skills |-> skills],
   projects |-> projects]

\* the sequences over S of length at most n
SeqsUpTo(S, n) == UNION { [1..k -> S] : k \in 0..n }

\* resumes whose experience, education, skills and projects are each empty or not
SectionResumes ==
  { TransformerResume(contactPlain, e, d, s, p) :
      e \in {<<>>, <<expOpen>>}, d \in {<<>>, <<eduPlain>>},
      s \in {<<>>, <<"React", "Bagels">>}, p \in {<<>>, <<projFull>>} }

\* resumes with every kind of entry, and with and without a job title
EntryResumes ==
  { TransformerResume(c, e, d, <<"Git">>, p) :
      c \in {contactPlain, contactFull},
      e \in {<<>>, <<expOpen>>, <<expClosed>>, <<expOpen, expClosed>>},
      d \in {<<eduPlain>>, <<eduFull, eduPlain>>},
      p \in {<<>>, <<projFull>>, <<projBare>>, <<projBare, projFull>>} }

SkillInputs ==
  {"React", "PostgreSQL", "Cloud: OpenTelemetry", "Bagels", " Docker ",
   "QA: Jest", "Foo: Git", "constructor: Vue"}

SkillResumes ==
  { TransformerResume(contactPlain, <<>>, <<>>, s, <<>>) :
      s \in SeqsUpTo(SkillInputs, MaxSkills) }

\* resumes whose contact lines carry links, with and without a scheme
LinkResumes ==
  { TransformerResume(c, <<>>, <<>>, <<>>, <<>>) : c \in {contactLinked, contactShouted} }

OrderKeys == Range(VALID_SECTION_KEYS) \cup {"bogus"}

\* sectionOrder as the request carries it: absent, not an array, or an array
SectionOrders ==
  {Undef, Null}
  \cup { Arr(keys) : keys \in SeqsUpTo(OrderKeys, MaxOrderLength) }
  \cup { Arr(<<"skills", "contact", "skills", "bogus">>),
         Arr(<<"projects", "skills", "education", "experience", "summary", "contact">>),
         Arr(<<"contact", "summary", "experienceProjects", "education", "skills">>),
         Arr(<<"experience", "experienceProjects", "projects", "experienceProjects">>) }

CombinedOrders ==
  {Undef, Arr(<<"contact", "summary", "experienceProjects", "education", "skills">>)}

DensityPresets == {"normal", "compact", "ultra-compact"}

\* a list of n items of two lines each
Filler(n) == List([i \in 1..n |-> "filler item"])

DocumentElements ==
  {Heading(1, "Name"), Heading(2, "Section"), TextLine("line"), TextLine(""),
   Paragraph("brief"), Paragraph("a text of three lines"),
   List(<<"one", "two lines long">>), List(<<>>), SectionBreak}

\* the elements a long document opens with
DocumentHeads == {Heading(1, "Name"), Paragraph("brief"), TextLine("line")}

\* documents given to the renderer directly: short ones, ones that reach the
\* bottom of the first page (a long list alone or under an opening element,
\* then possibly a section break, then a few elements), and ones of about
\* two pages
Documents ==
  SeqsUpTo(DocumentElements, MaxDocLength)
  \cup { <<Filler(n)>> \o tail :
           n \in FillFrom..FillTo, tail \in SeqsUpTo(DocumentElements, MaxTailLength) }
  \cup { <<head, Filler(n)>> \o gap \o tail :
           head \in DocumentHeads, n \in FillFrom..FillTo,
           gap \in {<<>>, <<SectionBreak>>},
           tail \in {<<>>} \cup { <<el>> : el \in DocumentElements } }
  \cup { <<Filler(n), Filler(m)>> : n \in FillFrom..FillTo, m \in FillFrom..FillTo }

ValidatorIdle ==
  /\ data = Undef
  /\ limits = DEFAULT_VALIDATION_LIMITS
  /\ pc = "idle"
  /\ errors = <<>>
  /\ isValid = FALSE
  /\ ran = <<>>

(***************************************************************************)
(* transformResumeToDocumentWithOrder followed by                          *)
(* renderDocumentToPDFWithMetadata, as the request handlers call them: one *)
(* action per section of the order and one per element of the document.    *)
(* stage: "order" -> "sections" -> "document" -> "render" -> "done".       *)
(***************************************************************************)
InitPdf ==
  /\ ValidatorIdle
  /\ RestIdle
  /\ \/ /\ stage = "order"
        /\ \/ resume \in SectionResumes /\ sectionOrder \in SectionOrders
              /\ densityPreset = "normal"
           \/ resume \in EntryResumes /\ sectionOrder \in CombinedOrders
              /\ densityPreset \in DensityPresets
           \/ resume \in SkillResumes /\ sectionOrder = Undef
              /\ densityPreset = "normal"
           \/ resume \in LinkResumes /\ sectionOrder = Undef
              /\ densityPreset = "normal"
        /\ elements = <<>>
     \/ /\ stage = "document"
        /\ resume = <<>>
        /\ sectionOrder = Undef
        /\ densityPreset \in DensityPresets
        /\ elements \in Documents
  /\ order = <<>>
  /\ sectionIndex = 0
  /\ currentY = 0
  /\ isFirstTextLine = FALSE
  /\ position = 0
  /\ item = 0
  /\ draws = <<>>
  /\ links = <<>>
  /\ newPages = 0
  /\ pageCount = 0

renderVars ==
  <<currentY, isFirstTextLine, position, item, draws, links, newPages, pageCount>>

\* const order = validateSectionOrder(sectionOrder); const elements = []
ResolveOrder ==
  /\ stage = "order"
  /\ order' = validateSectionOrder(sectionOrder)
  /\ elements' = <<>>
  /\ sectionIndex' = 0
  /\ stage' = "sections"
  /\ UNCHANGED <<restVars, validatorVars, resume, sectionOrder, densityPreset, renderVars>>

\* one call of the order.forEach callback, sectionIndex being its index
TransformSection ==
  /\ stage = "sections"
  /\ sectionIndex < Len(order)
  /\ LET sectionElements == sectionTransformers(order[sectionIndex + 1], resume)
     IN elements' =
          IF Len(sectionElements) > 0
          THEN elements \o sectionElements
               \o (IF sectionIndex < Len(order) - 1 THEN <<SectionBreak>> ELSE <<>>)
          ELSE elements
  /\ sectionIndex' = sectionIndex + 1
  /\ UNCHANGED <<restVars, validatorVars, resume, sectionOrder, order, densityPreset, stage,
                 renderVars>>

\* return { elements }
ReturnDocument ==
  /\ stage = "sections"
  /\ sectionIndex = Len(order)
  /\ stage' = "document"
  /\ UNCHANGED <<restVars, validatorVars, resume, sectionOrder, order, elements, sectionIndex,
                 densityPreset, renderVars>>

(***************************************************************************)
(* findLinks: the e-mail addresses and URLs of a text line, as the two     *)
(* regular expressions match them.  Positions are zero-based, a match is   *)
(* [start, end) and the whitespace of the inputs is the space.             *)
(***************************************************************************)
Digits == "0123456789"

charAt(s, i) == IF i >= 0 /\ i < Len(s) THEN SubSeq(s, i + 1, i + 1) ELSE ""

Chars(s) == { SubSeq(s, i, i) : i \in 1..Len(s) }

Letters == Chars(UpperCaseLetters) \cup Chars(LowerCaseLetters)

\* \w
WordChars == Letters \cup Chars(Digits) \cup {"_"}

\* \b at position i
WordBoundary(s, i) == (charAt(s, i - 1) \in WordChars) # (charAt(s, i) \in WordChars)

\* the character classes of the two patterns: [A-Za-z0-9._%+-], [A-Za-z0-9.-],
\* [A-Z|a-z], [a-z0-9-] under the i flag, and [^\s]
CharClass ==
  [local |-> Letters \cup Chars(Digits) \cup Chars("._%+-"),
   domain |-> Letters \cup Chars(Digits) \cup Chars(".-"),
   tld |-> Letters \cup {"|"},
   host |-> Letters \cup Chars(Digits) \cup {"-"}]

InClass(class, c) ==
  IF class = "nonspace" THEN c # "" /\ c # " " ELSE c \in CharClass[class]

\* the end of the longest run of characters of a class that starts at i
RECURSIVE RunEnd(_, _, _)
RunEnd(s, i, class) ==
  IF InClass(class, charAt(s, i)) THEN RunEnd(s, i + 1, class) ELSE i

\* the end of the last of the ways a match can end: <<d, e>> stands for the
\* domain ending at d and the match at e, the longest domain being tried
\* first and with it the longest top-level part
LastEnd(ends) ==
  IF ends = {} THEN -1
  ELSE (CHOOSE m \in ends :
          \A n \in ends : n[1] < m[1] \/ (n[1] = m[1] /\ n[2] <= m[2]))[2]

\* [A-Za-z0-9.-]+\.[A-Z|a-z]{2,}\b after the @ at position `at`, the run of
\* domain characters ending at domainEnd
emailAfterAt(s, at, domainEnd) ==
  LastEnd({ m \in ((at + 2)..(domainEnd - 1)) \X ((at + 5)..Len(s)) :
              /\ charAt(s, m[1]) = "."
              /\ m[2] >= m[1] + 3
              /\ \A j \in (m[1] + 1)..(m[2] - 1) : InClass("tld", charAt(s, j))
              /\ WordBoundary(s, m[2]) })

\* [A-Za-z0-9._%+-]+@ from position p, the run of local characters ending
\* at `at`, and the rest
emailAfterLocal(s, p, at) ==
  IF at > p /\ charAt(s, at) = "@"
  THEN emailAfterAt(s, at, RunEnd(s, at + 1, "domain")) ELSE -1

\* /\b[A-Za-z0-9._%+-]+@[A-Za-z0-9.-]+\.[A-Z|a-z]{2,}\b/ tried at position
\* p: the end of the match, -1 when there is none
emailEndAt(s, p) ==
  IF WordBoundary(s, p) THEN emailAfterLocal(s, p, RunEnd(s, p, "local")) ELSE -1

\* (?:\.[a-z0-9-]+)+ after the labels that end at e: the end of the last
\* label that can be added
RECURSIVE labelsEnd(_, _)
labelAdded(s, e, labelEnd) == IF labelEnd > e + 1 THEN labelsEnd(s, labelEnd) ELSE e

labelsEnd(s, e) ==
  IF charAt(s, e) = "." THEN labelAdded(s, e, RunEnd(s, e + 1, "host")) ELSE e

\* (?:\/[^\s]*)? after a host of two labels or more that ends at `host`
pathEndAt(s, first, host) ==
  IF host = first THEN -1
  ELSE IF charAt(s, host) = "/" THEN RunEnd(s, host + 1, "nonspace")
  ELSE host

hostAfterLabel(s, q, first) ==
  IF first = q THEN -1 ELSE pathEndAt(s, first, labelsEnd(s, first))

\* [a-z0-9-]+(?:\.[a-z0-9-]+)+(?:\/[^\s]*)? tried at position q
hostEndAt(s, q) == hostAfterLabel(s, q, RunEnd(s, q, "host"))

\* a literal of the pattern at position q, under the i flag
LiteralAt(s, q, literal) ==
  /\ q + Len(literal) <= Len(s)
  /\ toLowerCase(substring(s, q, q + Len(literal))) = literal

\* the end of the alternative tried first, else that of the one tried next
Either(first, next) == IF first >= 0 THEN first ELSE next

\* (?:www\.)? and the rest, the group tried first present, then absent
wwwEndAt(s, q) ==
  Either(IF LiteralAt(s, q, "www.") THEN hostEndAt(s, q + 4) ELSE -1, hostEndAt(s, q))

\* (?:https?:\/\/)? and the rest under the i flag, the longer scheme tried
\* first and the group tried absent last
schemeEndAt(s, q) ==
  Either(IF LiteralAt(s, q, "https://") THEN wwwEndAt(s, q + 8) ELSE -1,
         Either(IF LiteralAt(s, q, "http://") THEN wwwEndAt(s, q + 7) ELSE -1,
                wwwEndAt(s, q)))

\* the URL pattern tried at position p
urlEndAt(s, p) == IF WordBoundary(s, p) THEN schemeEndAt(s, p) ELSE -1

\* the end of the match of a pattern tried at position p
endAt(regex, s, p) == IF regex = "emailRegex" THEN emailEndAt(s, p) ELSE urlEndAt(s, p)

\* regex.exec(text): the first position from lastIndex on where the pattern
\* matches, -1 when it matches nowhere
RECURSIVE firstMatch(_, _, _)
firstMatch(regex, s, p) ==
  IF p >= Len(s) THEN -1
  ELSE IF endAt(regex, s, p) >= 0 THEN p
  ELSE firstMatch(regex, s, p + 1)

\* while ((match = regex.exec(text)) !== null): the matches from lastIndex on
RECURSIVE matchesFrom(_, _, _)
matchEnding(regex, s, index, end) ==
  <<[start |-> index, end |-> end, text |-> substring(s, index, end)]>>
  \o matchesFrom(regex, s, end)

matchStarting(regex, s, index) ==
  IF index < 0 THEN <<>> ELSE matchEnding(regex, s, index, endAt(regex, s, index))

matchesFrom(regex, s, lastIndex) == matchStarting(regex, s, firstMatch(regex, s, lastIndex))

\* links.sort((a, b) => a.start - b.start)
sortByStart(found) ==
  LET rank(i) ==
        Cardinality({ j \in 1..Len(found) :
                        \/ found[j].start < found[i].start
                        \/ (found[j].start = found[i].start /\ j < i) }) + 1
  IN [k \in 1..Len(found) |-> found[CHOOSE i \in 1..Len(found) : rank(i) = k]]

startsWith(s, k) == Len(s) >= Len(k) /\ SubSeq(s, 1, Len(k)) = k

\* as linkUrl, the scheme looked for whatever the case of its letters
linkUrl_AnyCase(matched) ==
  IF startsWith(toLowerCase(matched), "http://")
     \/ startsWith(toLowerCase(matched), "https://")
  THEN matched ELSE "https://" \o matched

\* let url = match[0]; if (!url.startsWith('http://') &&
\* !url.startsWith('https://')) url = 'https://' + url
linkUrl(matched) ==
  IF ~startsWith(matched, "http://") /\ ~startsWith(matched, "https://")
  THEN "https://" \o matched ELSE matched

\* emailPositions.has(index)
InEmail(emails, index) ==
  \E i \in 1..Len(emails) : emails[i].start <= index /\ index < emails[i].end

LinkMatch(m, url) == [text |-> m.text, url |-> url, start |-> m.start, end |-> m.end]

\* the links of the URL matches, those that start inside an e-mail address
\* left out
urlLinks(emails, urls) ==
  LET kept == SelectSeq(urls, LAMBDA m : ~InEmail(emails, m.start))
  IN [i \in 1..Len(kept) |-> LinkMatch(kept[i], linkUrl(kept[i].text))]

linksOf(text, emails) ==
  sortByStart([i \in 1..Len(emails) |->
                 LinkMatch(emails[i], "mailto:" \o emails[i].text)]
              \o urlLinks(emails, matchesFrom("urlRegex", text, 0)))

findLinks(text) == linksOf(text, matchesFrom("emailRegex", text, 0))

\* links.forEach(link => state.doc.link(..., link.url)): the annotations a
\* text line adds to the page, each with the element it belongs to
Annotations(at, found) ==
  [i \in 1..Len(found) |->
     [element |-> at, start |-> found[i].start, text |-> found[i].text,
      url |-> found[i].url]]

\* the indices of document.elements.map((el, idx) => ...) strictly increase
verifyElementOrderPreservation(doc) ==
  LET elementSequence == [i \in 1..Len(doc) |-> [index |-> i - 1, type |-> doc[i].type]]
  IN \A i \in 2..Len(doc) : ~(elementSequence[i].index <= elementSequence[i - 1].index)

\* renderDocumentToPDFWithMetadata up to the forEach: the check of the order,
\* the first page of the document, the initial renderer state
StartRender ==
  /\ stage = "document"
  /\ verifyElementOrderPreservation(elements)
  /\ currentY' = PAGE_CONFIG.marginTop
  /\ isFirstTextLine' = TRUE
  /\ position' = 1
  /\ item' = 0
  /\ draws' = <<>>
  /\ links' = <<>>
  /\ newPages' = 0
  /\ pageCount' = 1
  /\ stage' = "render"
  /\ UNCHANGED <<restVars, validatorVars, resume, sectionOrder, order, elements, sectionIndex,
                 densityPreset>>

\* the element renderElement is called with next
Rendering(type) ==
  /\ stage = "render"
  /\ position <= Len(elements)
  /\ elements[position].type = type

RenderHeading ==
  /\ Rendering("HEADING")
  /\ LET config == getConfigForDensity(densityPreset)
         element == elements[position]
         fontSize == IF element.level = 1 THEN config.fontSizes.h1
                     ELSE IF element.level = 2 THEN config.fontSizes.h2
                     ELSE config.fontSizes.h3
         lineHeight == calculateLineHeight(fontSize)
         check == checkPageBreak(currentY, lineHeight)
         spacingAfter == IF element.level = 1 THEN config.spacing.afterNameHeading
                         ELSE config.spacing.afterHeading
     IN /\ draws' = Append(draws,
                      Draw(position, 0, "HEADING", element.text, "bold", fontSize,
                           PAGE_CONFIG.marginLeft, check.currentY, currentY,
                           lineHeight, check.addPage, spacingAfter))
        /\ currentY' = check.currentY + lineHeight + spacingAfter
        /\ newPages' = newPages + (IF check.addPage THEN 1 ELSE 0)
        /\ pageCount' = pageCount + (IF check.addPage THEN 1 ELSE 0)
  /\ position' = position + 1
  /\ UNCHANGED <<restVars, validatorVars, resume, sectionOrder, order, elements, sectionIndex,
                 densityPreset, links, isFirstTextLine, item, stage>>

RenderParagraph ==
  /\ Rendering("PARAGRAPH")
  /\ LET config == getConfigForDensity(densityPreset)
         element == elements[position]
         fontSize == config.fontSizes.body
         lineHeight == calculateLineHeight(fontSize)
         check == checkPageBreak(currentY, config.spacing.minSpaceForParagraph)
         end == TextEnd(check.currentY, WrappedLines(element.text), lineHeight)
     IN /\ draws' = Append(draws,
                      Draw(position, 0, "PARAGRAPH", element.text, "main", fontSize,
                           PAGE_CONFIG.marginLeft, check.currentY, currentY,
                           config.spacing.minSpaceForParagraph, check.addPage,
                           config.spacing.afterParagraph))
        /\ currentY' = end.y + config.spacing.afterParagraph
        /\ newPages' = newPages + (IF check.addPage THEN 1 ELSE 0)
        /\ pageCount' = pageCount + (IF check.addPage THEN 1 ELSE 0) + end.pages
  /\ position' = position + 1
  /\ UNCHANGED <<restVars, validatorVars, resume, sectionOrder, order, elements, sectionIndex,
                 densityPreset, links, isFirstTextLine, item, stage>>

RenderTextLine ==
  /\ Rendering("TEXT_LINE")
  /\ LET config == getConfigForDensity(densityPreset)
         element == elements[position]
         isContactLine == isFirstTextLine
         fontSize == IF isContactLine THEN config.fontSizes.contactInfo
                     ELSE config.fontSizes.body
         lineHeight == calculateLineHeight(fontSize)
         check == checkPageBreak(currentY, lineHeight)
         spacingAfter == IF isContactLine THEN config.spacing.afterContactLine
                         ELSE config.spacing.afterTextLine
     IN /\ draws' = Append(draws,
                      Draw(position, 0, "TEXT_LINE", element.text, "main", fontSize,
                           PAGE_CONFIG.marginLeft, check.currentY, currentY,
                           lineHeight, check.addPage, spacingAfter))
        /\ links' = links \o Annotations(position, findLinks(element.text))
        /\ currentY' = check.currentY + lineHeight + spacingAfter
        /\ newPages' = newPages + (IF check.addPage THEN 1 ELSE 0)
        /\ pageCount' = pageCount + (IF check.addPage THEN 1 ELSE 0)
  /\ isFirstTextLine' = FALSE
  /\ position' = position + 1
  /\ UNCHANGED <<restVars, validatorVars, resume, sectionOrder, order, elements, sectionIndex,
                 densityPreset, item, stage>>

\* as RenderListItem, the items taken last to first
RenderListItem_LastItemFirst ==
  /\ Rendering("LIST")
  /\ item < Len(elements[position].items)
  /\ LET config == getConfigForDensity(densityPreset)
         items == elements[position].items
         fontSize == config.fontSizes.body
         lineHeight == calculateLineHeight(fontSize)
         check == checkPageBreak(currentY, config.spacing.minSpaceForListItem)
         bulletX == PAGE_CONFIG.marginLeft
         textX == bulletX + config.spacing.listItemIndent
         listItem == items[Len(items) - item]
         between == IF item < Len(items) - 1 THEN config.spacing.betweenListItems ELSE 0
         end == TextEnd(check.currentY, WrappedLines(listItem.text), lineHeight)
         drawn(text, x) ==
           Draw(position, Len(items) - item, "LIST", text, "main", fontSize, x,
                check.currentY, currentY, config.spacing.minSpaceForListItem,
                check.addPage, between)
     IN /\ draws' = draws \o <<drawn(BULLET_MARKER, bulletX), drawn(listItem.text, textX)>>
        /\ currentY' = end.y + between
        /\ newPages' = newPages + (IF check.addPage THEN 1 ELSE 0)
        /\ pageCount' = pageCount + (IF check.addPage THEN 1 ELSE 0) + end.pages
  /\ item' = item + 1
  /\ UNCHANGED <<restVars, validatorVars, resume, sectionOrder, order, elements, sectionIndex,
                 densityPreset, links, isFirstTextLine, position, stage>>

\* one call of the element.items.forEach callback of renderList, `item` being
\* its index: the bullet marker and the item text are drawn at the same y
RenderListItem ==
  /\ Rendering("LIST")
  /\ item < Len(elements[position].items)
  /\ LET config == getConfigForDensity(densityPreset)
         items == elements[position].items
         fontSize == config.fontSizes.body
         lineHeight == calculateLineHeight(fontSize)
         check == checkPageBreak(currentY, config.spacing.minSpaceForListItem)
         bulletX == PAGE_CONFIG.marginLeft
         textX == bulletX + config.spacing.listItemIndent
         listItem == items[item + 1]
         between == IF item < Len(items) - 1 THEN config.spacing.betweenListItems ELSE 0
         end == TextEnd(check.currentY, WrappedLines(listItem.text), lineHeight)
         drawn(text, x) ==
           Draw(position, item + 1, "LIST", text, "main", fontSize, x,
                check.currentY, currentY, config.spacing.minSpaceForListItem,
                check.addPage, between)
     IN /\ draws' = draws \o <<drawn(BULLET_MARKER, bulletX), drawn(listItem.text, textX)>>
        /\ currentY' = end.y + between
        /\ newPages' = newPages + (IF check.addPage THEN 1 ELSE 0)
        /\ pageCount' = pageCount + (IF check.addPage THEN 1 ELSE 0) + end.pages
  /\ item' = item + 1
  /\ UNCHANGED <<restVars, validatorVars, resume, sectionOrder, order, elements, sectionIndex,
                 densityPreset, links, isFirstTextLine, position, stage>>

\* renderList after the forEach: the spacing after the list
RenderListEnd ==
  /\ Rendering("LIST")
  /\ item = Len(elements[position].items)
  /\ currentY' = currentY + getConfigForDensity(densityPreset).spacing.afterList
  /\ item' = 0
  /\ position' = position + 1
  /\ UNCHANGED <<restVars, validatorVars, resume, sectionOrder, order, elements, sectionIndex,
                 densityPreset, links, isFirstTextLine, draws, newPages, pageCount, stage>>

\* as RenderSectionBreak, the cursor left where it is
RenderSectionBreak_KeepsCursor ==
  /\ Rendering("SECTION_BREAK")
  /\ position' = position + 1
  /\ UNCHANGED <<restVars, validatorVars, resume, sectionOrder, order, elements, sectionIndex,
                 densityPreset, links, currentY, isFirstTextLine, item, draws, newPages,
                 pageCount, stage>>

RenderSectionBreak ==
  /\ Rendering("SECTION_BREAK")
  /\ currentY' = currentY + getConfigForDensity(densityPreset).spacing.sectionBreak
  /\ position' = position + 1
  /\ UNCHANGED <<restVars, validatorVars, resume, sectionOrder, order, elements, sectionIndex,
                 densityPreset, links, isFirstTextLine, item, draws, newPages, pageCount,
                 stage>>

\* doc.end() after the forEach
EndDocument ==
  /\ stage = "render"
  /\ position > Len(elements)
  /\ stage' = "done"
  /\ UNCHANGED <<restVars, validatorVars, resume, sectionOrder, order, elements, sectionIndex,
                 densityPreset, renderVars>>

NextPdf ==
  \/ ResolveOrder
  \/ TransformSection
  \/ ReturnDocument
  \/ StartRender
  \/ RenderHeading
  \/ RenderParagraph
  \/ RenderTextLine
  \/ RenderListItem
  \/ RenderListEnd
  \/ RenderSectionBreak
  \/ EndDocument

SpecPdf == InitPdf /\ [][NextPdf]_vars

(***************************************************************************)
(* Properties of the transformer.                                          *)
(***************************************************************************)
\* validateSectionOrder has returned
Resolved == stage \notin {"idle", "order"} /\ order # <<>>

\* transformResumeToDocumentWithOrder has returned the document `elements`
Transformed == Resolved /\ stage \in {"document", "render", "done"}

\* the keys of the sectionOrder array
GivenKeys == sectionOrder[2]

\* C11: for every list of strings without 'experienceProjects' (duplicates,
\* unknown names, contact anywhere), validateSectionOrder returns a list with
\* 'contact' at index 0 that holds each of the six canonical keys exactly
\* once and no other key.
C11_SixKeysContactFirst ==
  (/\ Resolved
   /\ sectionOrder[1] = "arr"
   /\ "experienceProjects" \notin Range(GivenKeys))
  => /\ order[1] = "contact"
     /\ Len(order) = 6
     /\ Range(order) = Range(DEFAULT_SECTION_ORDER)

\* C11 witness: ['skills','contact','skills','bogus'] has been normalised
C11_Witness ==
  /\ Resolved
  /\ sectionOrder = Arr(<<"skills", "contact", "skills", "bogus">>)
  /\ order = <<"contact", "skills", "summary", "experience", "education", "projects">>

\* the valid keys other than contact that occur in keys, by first occurrence
FirstOccurrences(keys) ==
  LET K == (Range(keys) \cap Range(VALID_SECTION_KEYS)) \ {"contact"}
      first(k) == CHOOSE i \in 1..Len(keys) :
                    keys[i] = k /\ \A j \in 1..(i - 1) : keys[j] # k
  IN [n \in 1..Cardinality(K) |->
        CHOOSE k \in K : Cardinality({j \in K : first(j) < first(k)}) = n - 1]

\* C12: validateSectionOrder returns exactly 'contact', then the valid
\* non-contact keys of the input in the order of their first occurrence, then
\* every canonical key still missing, in the default order, except that
\* experience and projects are not appended when 'experienceProjects' occurs
\* in the input; an absent order yields the default order.
C12_ExactOrder ==
  Resolved =>
    IF sectionOrder[1] = "arr"
    THEN LET given == FirstOccurrences(GivenKeys)
             subsumed == IF "experienceProjects" \in Range(GivenKeys)
                         THEN {"experience", "projects"} ELSE {}
             missing(k) == k \notin Range(given) \cup subsumed \cup {"contact"}
         IN order = <<"contact">> \o given \o SelectSeq(DEFAULT_SECTION_ORDER, missing)
    ELSE order = DEFAULT_SECTION_ORDER

\* C12 witness: an order naming the combined key twice, and experience and
\* projects as well, has been normalised
C12_Witness ==
  /\ Resolved
  /\ sectionOrder = Arr(<<"experience", "experienceProjects", "projects",
                          "experienceProjects">>)
  /\ order = <<"contact", "experience", "experienceProjects", "projects",
               "summary", "education", "skills">>

\* the sections of the resolved order that emit elements, in order
NonEmptySections ==
  SelectSeq([i \in 1..Len(order) |-> sectionTransformers(order[i], resume)],
            LAMBDA section : Len(section) > 0)

\* C13: the Document holds exactly one SectionBreak between each pair of
\* consecutive non-empty sections of the resolved order and none after the
\* last non-empty section, also when empty sections follow it.
C13_BreaksOnlyBetweenSections ==
  Transformed =>
    elements = Flatten([i \in 1..Len(NonEmptySections) |->
                          NonEmptySections[i]
                          \o (IF i < Len(NonEmptySections) THEN <<SectionBreak>>
                              ELSE <<>>)])

\* the data under a section key is empty
DataEmpty(sectionKey) ==
  CASE sectionKey = "experience" -> Len(resume.experience) = 0
    [] sectionKey = "education" -> Len(resume.education) = 0
    [] sectionKey = "skills" -> Len(resume.skills.skills) = 0
    [] sectionKey = "projects" -> Len(resume.projects) = 0
    [] sectionKey = "experienceProjects" ->
         Len(resume.experience) = 0 /\ Len(resume.projects) = 0
    [] OTHER -> FALSE

\* C14: a section whose data is empty (experience, education, skills or
\* projects with an empty array, the combined section with both arrays
\* empty) contributes no element: neither a heading nor a break.
C14_EmptySectionEmitsNothing ==
  [][(/\ stage = "sections"
      /\ sectionIndex < Len(order)
      /\ DataEmpty(order[sectionIndex + 1]))
     => elements' = elements]_vars

\* C15: in the combined section each experience entry and each project entry
\* is emitted as the standalone Experience and Projects sections emit it.
C15_CombinedEntriesAsStandalone ==
  (Transformed /\ "experienceProjects" \in Range(order))
  => /\ \A i \in 1..Len(resume.experience) :
          CombinedExperienceEntry(resume.experience[i])
            = ExperienceEntry(resume.experience[i])
     /\ \A i \in 1..Len(resume.projects) :
          CombinedProjectEntry(resume.projects[i]) = ProjectEntry(resume.projects[i])

\* the TextLines that follow the Skills heading in a document
SkillLines(doc) ==
  LET at == { i \in 1..Len(doc) : doc[i] = Heading(2, "Skills") }
      h == CHOOSE i \in at : TRUE
      stop == { j \in (h + 1)..Len(doc) : doc[j].type # "TEXT_LINE" }
      last == IF stop = {} THEN Len(doc)
              ELSE (CHOOSE j \in stop : \A k \in stop : j <= k) - 1
  IN IF at = {} THEN <<>> ELSE SubSeq(doc, h + 1, last)

\* C16: the Skills section emits one TextLine '{Category}: {skills joined by
\* comma}' per non-empty category, in the canonical category order, the
\* skills of a line in input order, and every input skill is in exactly one
\* line.
C16_EverySkillInOneLine ==
  (Transformed /\ Len(resume.skills.skills) > 0 /\ "skills" \in Range(order))
  => LET skills == resume.skills.skills
         parsed == [i \in 1..Len(skills) |-> parseSkillWithCategory(skills[i])]
         lineOf(category) ==
           TextLine(category \o ": " \o join(SkillsOf(category, parsed), ", "))
         used == SelectSeq(categoryOrder,
                           LAMBDA c : \E i \in 1..Len(parsed) : parsed[i].category = c)
         lines == SkillLines(elements)
     IN /\ lines = [c \in 1..Len(used) |-> lineOf(used[c])]
        /\ \A i \in 1..Len(skills) :
             Cardinality({ k \in 1..Len(lines) :
                             lines[k] = lineOf(parsed[i].category) }) = 1

(***************************************************************************)
(* The renderer: order of the draws, page breaks, the contact line.        *)
(***************************************************************************)
Rendered == stage = "done"

\* what a draw draws: the element (by array position), the list item, the text
DrawKey(d) == <<d.element, d.item, d.type, d.text>>

DrawKeys == [k \in 1..Len(draws) |-> DrawKey(draws[k])]

\* the draws the element at array position i asks for: one for a heading, a
\* paragraph or a text line; the marker and the text for each list item, in
\* item order; none for a section break
ElementDraws(doc, i) ==
  LET el == doc[i]
  IN IF el.type = "SECTION_BREAK" THEN <<>>
     ELSE IF el.type = "LIST"
          THEN [k \in 1..(2 * Len(el.items)) |->
                  IF k % 2 = 1 THEN <<i, (k + 1) \div 2, "LIST", BULLET_MARKER>>
                  ELSE <<i, k \div 2, "LIST", el.items[k \div 2].text>>]
          ELSE <<<<i, 0, el.type, el.text>>>>

RECURSIVE DrawsUpTo(_, _)
DrawsUpTo(doc, n) ==
  IF n = 0 THEN <<>> ELSE DrawsUpTo(doc, n - 1) \o ElementDraws(doc, n)

IsPrefix(s, t) == Len(s) <= Len(t) /\ SubSeq(t, 1, Len(s)) = s

\* C17: the draws issued to the page writer are, in order, the draws of the
\* elements in array order (list items in item order inside their List): while
\* rendering they are a prefix of that sequence, and when the document is
\* finished they are that sequence, so no element is skipped or drawn twice;
\* the sequence is the concatenation of the per-element draws in array order,
\* so a permuted array gives the correspondingly permuted draws.
C17_DrawsInElementOrder ==
  /\ stage \in {"render", "done"}
       => IsPrefix(DrawKeys, DrawsUpTo(elements, Len(elements)))
  /\ Rendered => DrawKeys = DrawsUpTo(elements, Len(elements))

\* a finished document with a list of several items followed by a section
\* break and a further element
C17_Witness ==
  /\ Rendered
  /\ \E i, j, k \in 1..Len(elements) :
       /\ i < j /\ j < k
       /\ elements[i].type = "LIST" /\ Len(elements[i].items) >= 2
       /\ elements[j].type = "SECTION_BREAK"
       /\ elements[k].type \in {"HEADING", "TEXT_LINE", "PARAGRAPH"}
  /\ Len(draws) >= 6

\* the space a draw needs free above the bottom margin: one line of its font
\* size for a heading or a text line, the configured minimum for a paragraph
\* or a list item
Threshold(d) ==
  LET spacing == getConfigForDensity(densityPreset).spacing
  IN IF d.type = "PARAGRAPH" THEN spacing.minSpaceForParagraph
     ELSE IF d.type = "LIST" THEN spacing.minSpaceForListItem
     ELSE calculateLineHeight(d.fontSize)

\* the checks that added a page: one per heading, paragraph, text line or
\* list item whose draw followed a page break
BreakingChecks ==
  { <<draws[k].element, draws[k].item>> : k \in { j \in 1..Len(draws) : draws[j].addPage } }

\* C18: before every draw the renderer adds a page and puts the cursor at the
\* top margin exactly when the space left above the bottom margin is smaller
\* than the element's threshold; otherwise it draws at the cursor.  So every
\* draw begins at a y with marginTop <= y <= Bottom - threshold, whatever
\* section breaks came before.
C18_BreakIffTooLittleSpace ==
  /\ \A k \in 1..Len(draws) :
       LET d == draws[k]
       IN /\ d.addPage <=> (Bottom - d.cursor < Threshold(d))
          /\ d.y = (IF d.addPage THEN PAGE_CONFIG.marginTop ELSE d.cursor)
          /\ PAGE_CONFIG.marginTop <= d.y
          /\ d.y <= Bottom - Threshold(d)
  /\ newPages = Cardinality(BreakingChecks)

\* a paragraph moved to a new page, after a list that filled the first page
\* and a section break, although one line of it would have fitted
C18_Witness ==
  /\ Rendered
  /\ \E k \in 1..Len(draws) :
       /\ draws[k].type = "PARAGRAPH"
       /\ draws[k].addPage
       /\ Bottom - draws[k].cursor >= calculateLineHeight(draws[k].fontSize)
       /\ draws[k].y = PAGE_CONFIG.marginTop
       /\ \E i \in 1..(draws[k].element - 1) : elements[i].type = "SECTION_BREAK"
  /\ \E k \in 1..Len(draws) : draws[k].type = "LIST" /\ ~draws[k].addPage

\* The layout without page breaks.  A piece is a draw or a bare spacing of the
\* document: what it needs free before it is drawn (threshold), and what it
\* adds to the cumulative height (advance: its lines plus its after-spacing).
Piece(el, listItem, drawn, threshold, advance) ==
  [element |-> el, item |-> listItem, drawn |-> drawn, threshold |-> threshold,
   advance |-> advance]

\* the position of the first TextLine of the document, 0 when it has none
FirstTextLine(doc) ==
  LET at == { i \in 1..Len(doc) : doc[i].type = "TEXT_LINE" }
  IN IF at = {} THEN 0 ELSE CHOOSE i \in at : \A j \in at : i <= j

ElementPieces(doc, i) ==
  LET config == getConfigForDensity(densityPreset)
      el == doc[i]
      bodyLine == calculateLineHeight(config.fontSizes.body)
  IN IF el.type = "SECTION_BREAK"
     THEN <<Piece(i, 0, FALSE, 0, config.spacing.sectionBreak)>>
     ELSE IF el.type = "HEADING"
     THEN LET size == IF el.level = 1 THEN config.fontSizes.h1
                      ELSE IF el.level = 2 THEN config.fontSizes.h2
                      ELSE config.fontSizes.h3
              after == IF el.level = 1 THEN config.spacing.afterNameHeading
                       ELSE config.spacing.afterHeading
          IN <<Piece(i, 0, TRUE, calculateLineHeight(size),
                     calculateLineHeight(size) + after)>>
     ELSE IF el.type = "TEXT_LINE"
     THEN IF i = FirstTextLine(doc)
          THEN <<Piece(i, 0, TRUE, calculateLineHeight(config.fontSizes.contactInfo),
                       calculateLineHeight(config.fontSizes.contactInfo)
                         + config.spacing.afterContactLine)>>
          ELSE <<Piece(i, 0, TRUE, bodyLine, bodyLine + config.spacing.afterTextLine)>>
     ELSE IF el.type = "PARAGRAPH"
     THEN <<Piece(i, 0, TRUE, config.spacing.minSpaceForParagraph,
                  WrappedLines(el.text) * bodyLine + config.spacing.afterParagraph)>>
     ELSE [k \in 1..(Len(el.items) + 1) |->
             IF k <= Len(el.items)
             THEN Piece(i, k, TRUE, config.spacing.minSpaceForListItem,
                        WrappedLines(el.items[k].text) * bodyLine
                          + (IF k < Len(el.items) THEN config.spacing.betweenListItems
                             ELSE 0))
             ELSE Piece(i, 0, FALSE, 0, config.spacing.afterList)]

RECURSIVE PiecesUpTo(_, _)
PiecesUpTo(doc, n) ==
  IF n = 0 THEN <<>> ELSE PiecesUpTo(doc, n - 1) \o ElementPieces(doc, n)

Pieces == PiecesUpTo(elements, Len(elements))

\* the advances of pieces lo..hi, added up
RECURSIVE Height(_, _, _)
Height(pieces, lo, hi) ==
  IF lo > hi THEN 0
  ELSE IF lo = hi THEN pieces[lo].advance
  ELSE LET mid == (lo + hi) \div 2
       IN Height(pieces, lo, mid) + Height(pieces, mid + 1, hi)

\* the height of one page's content area
ContentHeight == Bottom - PAGE_CONFIG.marginTop

\* the draw k finds less than its threshold when pieces from..k-1 lie above
\* it on its page
TooLow(pieces, from, k) ==
  pieces[k].drawn /\ ContentHeight - Height(pieces, from, k - 1) < pieces[k].threshold

\* the first draw at or after `from` that finds less than its threshold, 0
\* when every draw finds it
FirstTooLow(pieces, from) ==
  LET low == { k \in from..Len(pieces) : TooLow(pieces, from, k) }
  IN IF low = {} THEN 0 ELSE CHOOSE k \in low : \A j \in low : k <= j

\* the draws of the piece
DrawsOf(piece) ==
  { k \in 1..Len(draws) :
      draws[k].element = piece.element /\ draws[k].item = piece.item }

ContactInfoLine == IF Truthy(resume.contact.jobTitle) THEN 3 ELSE 2

\* the draw has the size and the after-spacing of the contact line
ContactStyle(d) ==
  LET config == getConfigForDensity(densityPreset)
  IN /\ d.fontSize = config.fontSizes.contactInfo
     /\ d.after = config.spacing.afterContactLine

\* the draw has the size and the after-spacing of an ordinary text line
BodyStyle(d) ==
  LET config == getConfigForDensity(densityPreset)
  IN /\ d.fontSize = config.fontSizes.body
     /\ d.after = config.spacing.afterTextLine

\* C20: when a transformed resume has been rendered, the contact-info line
\* (email, phone, location) is the one text line drawn with the contact size
\* and the contact after-spacing; every other text line, a job-title line
\* under the name included, is drawn with the body size and the ordinary
\* after-spacing.
C20_OnlyContactInfoLineInContactStyle ==
  (Rendered /\ order # <<>>) =>
    /\ elements[ContactInfoLine].type = "TEXT_LINE"
    /\ elements[ContactInfoLine].text =
         join(Present(<<resume.contact.email, resume.contact.phone,
                        resume.contact.location>>), " | ")
    /\ \A k \in 1..Len(draws) :
         draws[k].type = "TEXT_LINE" =>
           IF draws[k].element = ContactInfoLine
           THEN ContactStyle(draws[k])
           ELSE BodyStyle(draws[k])

(***************************************************************************)
(* The validator: optional strings, one error per field path.              *)
(***************************************************************************)
\* the string consists of whitespace only (and is not empty)
Blank(runs) == runs # <<>> /\ \A i \in 1..Len(runs) : IsWhitespace(runs[i][1])

\* what an optional string field is to be reported with: nothing when it is
\* undefined, null or empty, and otherwise the first of the required-string
\* rules it breaks
OptionalOutcome(v, maxLength) ==
  IF v = Undef \/ v = Null \/ v = Str(<<>>) THEN "none"
  ELSE IF Kind(v) # "str" THEN "INVALID_TYPE"
  ELSE IF Blank(Body(v)) THEN "REQUIRED_FIELD_MISSING"
  ELSE IF StrLen(Body(v)) > maxLength THEN "STRING_TOO_LONG"
  ELSE IF ~isSafeString(Body(v)) THEN "UNSAFE_CONTENT"
  ELSE "none"

\* the field `key` of the object obj, validated under the path prefix, is
\* reported as an optional string is to be
OptionalAsExpected(obj, prefix, key) ==
  LET outcome == OptionalOutcome(Get(obj, key), limits.maxStringLength)
      field == prefix \o "." \o key
  IN OnField(field) = IF outcome = "none" THEN <<>> ELSE <<Err(outcome, field)>>

\* the optional string fields of the entries of a section
EntryOptionals(section) ==
  CASE section = "experience" -> {"location", "endDate"}
    [] section = "education" -> {"fieldOfStudy", "endDate", "cgpa"}
    [] section = "projects" -> {"link"}

EntryLimit(section) ==
  CASE section = "experience" -> limits.maxExperienceEntries
    [] section = "education" -> limits.maxEducationEntries
    [] section = "projects" -> limits.maxProjectEntries

\* C23: an optional string field gives no error when it is undefined, null or
\* the empty string, and otherwise exactly the error of the first
\* required-string rule it breaks: INVALID_TYPE for a non-string,
\* REQUIRED_FIELD_MISSING for a whitespace-only string, STRING_TOO_LONG for
\* an over-long one, UNSAFE_CONTENT for an unsafe one.
C23_OptionalStringRules ==
  (Returned /\ StructurallySound(data, limits)) =>
    /\ Kind(Get(data, "contact")) = "obj" =>
         \A key \in {"linkedin", "github", "portfolio", "twitter"} :
           OptionalAsExpected(Get(data, "contact"), "contact", key)
    /\ \A section \in {"experience", "education", "projects"} :
         \A i \in EntriesValidated(data, section, EntryLimit(section)) :
           \A key \in EntryOptionals(section) :
             OptionalAsExpected(Body(Get(data, section))[i],
                                Indexed(section, i - 1), key)

\* a validated contact whose four optional fields break one rule each
C23_Witness ==
  /\ Returned
  /\ StructurallySound(data, limits)
  /\ OnField("contact.linkedin") = <<Err("STRING_TOO_LONG", "contact.linkedin")>>
  /\ OnField("contact.github") = <<Err("INVALID_TYPE", "contact.github")>>
  /\ OnField("contact.portfolio") = <<Err("UNSAFE_CONTENT", "contact.portfolio")>>
  /\ OnField("contact.twitter") = <<Err("REQUIRED_FIELD_MISSING", "contact.twitter")>>
  /\ Len(OnField("education[0].cgpa")) + Len(OnField("projects[0].link")) > 0

\* what a required string field is to be reported with: the first of the
\* checks (type, empty, length, unsafe content) that fails
RequiredOutcome(v, maxLength) ==
  IF Kind(v) # "str" THEN "INVALID_TYPE"
  ELSE IF Body(v) = <<>> \/ Blank(Body(v)) THEN "REQUIRED_FIELD_MISSING"
  ELSE IF StrLen(Body(v)) > maxLength THEN "STRING_TOO_LONG"
  ELSE IF ~isSafeString(Body(v)) THEN "UNSAFE_CONTENT"
  ELSE "none"

RequiredAsExpected(obj, prefix, key, maxLength) ==
  LET outcome == RequiredOutcome(Get(obj, key), maxLength)
      field == prefix \o "." \o key
  IN OnField(field) = IF outcome = "none" THEN <<>> ELSE <<Err(outcome, field)>>

\* C28: the error list never holds two errors on the same field path, and a
\* required string is reported with the first check it fails only.
C28_OneErrorPerFieldPath ==
  /\ \A i, j \in 1..Len(errors) : errors[i].field = errors[j].field => i = j
  /\ (Returned /\ StructurallySound(data, limits)) =>
       /\ Kind(Get(data, "contact")) = "obj" =>
            \A key \in {"fullName", "email", "phone", "location"} :
              RequiredAsExpected(Get(data, "contact"), "contact", key,
                                 limits.maxStringLength)
       /\ Kind(Get(data, "summary")) = "obj" =>
            RequiredAsExpected(Get(data, "summary"), "summary", "summary",
                               limits.maxSummaryLength)

\* a returned list of several errors, one of them on a skill that is both
\* over-long and unsafe
C28_Witness ==
  /\ Returned
  /\ Len(errors) >= 3
  /\ Kind(Get(data, "skills")) = "obj"
  /\ Get(Get(data, "skills"), "skills") = Arr(<<sLongNul(limits)>>)
  /\ OnField("skills.skills[0]") = <<Err("STRING_TOO_LONG", "skills.skills[0]")>>

(***************************************************************************)
(* The transformer: skill prefixes, the combined key, the name heading.    *)
(***************************************************************************)
\* the skill has the form 'C: S', C and S non-empty after trimming
HasPrefix(skill) ==
  LET t == trim(skill)
      at == indexOf(t, ": ")
  IN /\ at > 0
     /\ Len(trim(substring(t, 0, at))) > 0
     /\ Len(trim(substring(t, at + 2, Len(t)))) > 0

PrefixOf(skill) ==
  LET t == trim(skill) IN trim(substring(t, 0, indexOf(t, ": ")))

\* the text a skill is emitted with: S for 'C: S', else the trimmed skill
EmittedSkill(skill) ==
  LET t == trim(skill)
  IN IF HasPrefix(skill) THEN trim(substring(t, indexOf(t, ": ") + 2, Len(t)))
     ELSE t

\* the category a skill belongs to: for 'C: S' the alias-table entry of the
\* lower-cased C, 'Other' when the table has none; without a prefix the
\* first category of the keyword table one of whose keywords the lower-cased
\* skill contains, 'Other' when none does
ExpectedCategory(skill) ==
  LET prefix == toLowerCase(PrefixOf(skill))
      lowered == toLowerCase(trim(skill))
      aliases == { i \in 1..Len(CATEGORY_ALIASES) : CATEGORY_ALIASES[i][1] = prefix }
      keyworded == { i \in 1..Len(SKILL_CATEGORIES) :
                       \E k \in 1..Len(SKILL_CATEGORIES[i][2]) :
                         includes(lowered, SKILL_CATEGORIES[i][2][k]) }
  IN IF HasPrefix(skill)
     THEN IF aliases = {} THEN "Other"
          ELSE CATEGORY_ALIASES[CHOOSE i \in aliases : TRUE][2]
     ELSE IF keyworded = {} THEN "Other"
          ELSE SKILL_CATEGORIES[CHOOSE i \in keyworded : \A j \in keyworded : i <= j][1]

\* C24: every skill is emitted in the line of its category, with its prefix
\* stripped: a skill 'C: S' in the category the alias table gives for C, or
\* 'Other', whatever keywords C and S contain; a skill without a prefix in
\* the first category whose keyword it contains, or 'Other'.
C24_PrefixDecidesCategory ==
  (stage = "document" /\ Resolved /\ Len(resume.skills.skills) > 0
     /\ "skills" \in Range(order))
  => LET skills == resume.skills.skills
         category == [i \in 1..Len(skills) |-> ExpectedCategory(skills[i])]
         emitted == [i \in 1..Len(skills) |-> EmittedSkill(skills[i])]
         sameCategory(i) == { k \in 1..Len(skills) : category[k] = category[i] }
         inLine(i) == SelectSeq(emitted, LAMBDA text :
                        \E k \in sameCategory(i) : emitted[k] = text)
         line(i) == TextLine(category[i] \o ": " \o join(inLine(i), ", "))
         lines == SkillLines(elements)
     IN \A i \in 1..Len(skills) : \E k \in 1..Len(lines) : lines[k] = line(i)

\* the document has this element
Emitted(el) == \E i \in 1..Len(elements) : elements[i] = el

ContactElements ==
  LET breaks == { i \in 1..Len(elements) : elements[i].type = "SECTION_BREAK" }
  IN IF breaks = {} THEN 1..Len(elements)
     ELSE 1..((CHOOSE i \in breaks : \A j \in breaks : i <= j) - 1)

\* C29: whatever the section order, the document begins with the level-1
\* heading that carries contact.fullName, it has no other level-1 heading,
\* and its first text line is one of the contact section.
C29_NameHeadingFirstAndOnly ==
  Transformed =>
    /\ elements[1] = Heading(1, resume.contact.fullName)
    /\ \A i \in 2..Len(elements) :
         ~(elements[i].type = "HEADING" /\ elements[i].level = 1)
    /\ FirstTextLine(elements) \in ContactElements
    /\ elements[FirstTextLine(elements)].text
         \in { resume.contact.jobTitle,
               join(Present(<<resume.contact.email, resume.contact.phone,
                              resume.contact.location>>), " | ") }

\* a document transformed under an order that names contact last, with a
\* job title and level-2 and level-3 headings after the name
C29_Witness ==
  /\ Transformed
  /\ sectionOrder # Undef
  /\ Len(GivenKeys) >= 2
  /\ GivenKeys[Len(GivenKeys)] = "contact"
  /\ GivenKeys[1] # "contact"
  /\ \E i \in 2..Len(elements) : elements[i].type = "HEADING" /\ elements[i].level = 3
  /\ elements[1].type = "HEADING" /\ elements[1].level = 1
(***************************************************************************)
(* Link targets                                                            *)
(***************************************************************************)
\* the text begins with a scheme, in whatever case the URL pattern accepts
HasScheme(matched) ==
  \/ startsWith(toLowerCase(matched), "http://")
  \/ startsWith(toLowerCase(matched), "https://")

\* the annotation a text line got for a match of a pattern
AnnotationOf(at, m) ==
  { l \in Range(links) : l.element = at /\ l.start = m.start /\ l.text = m.text }

\* the URL matches of a text that do not start inside an e-mail address
UrlMatches(text) ==
  { m \in Range(matchesFrom("urlRegex", text, 0)) :
      ~InEmail(matchesFrom("emailRegex", text, 0), m.start) }

\* C25: every URL match of a rendered text line has a link whose target is
\* the matched text itself when that begins with http:// or https:// in any
\* case, and "https://" followed by the matched text otherwise; every e-mail
\* match has a link whose target is "mailto:" followed by the address
C25_LinkTargetHasOneScheme ==
  LET i == position - 1
  IN (stage \in {"render", "done"} /\ i >= 1 /\ elements[i].type = "TEXT_LINE") =>
       /\ \A m \in UrlMatches(elements[i].text) :
             \E l \in AnnotationOf(i, m) :
               l.url = IF HasScheme(m.text) THEN m.text ELSE "https://" \o m.text
       /\ \A m \in Range(matchesFrom("emailRegex", elements[i].text, 0)) :
             \E l \in AnnotationOf(i, m) : l.url = "mailto:" \o m.text

(***************************************************************************)
(* SectionReorder: the buttons of the section-reorder control.  `index` is *)
(* the zero-based index of the row whose button is pressed, and onChange   *)
(* replaces the sectionOrder the control is given.                         *)
(***************************************************************************)
MaxShownLength == 4

NoDuplicates(keys) == \A i, j \in 1..Len(keys) : keys[i] = keys[j] => i = j

\* the orders the control starts from: 'contact' first and no key twice
ShownOrders ==
  { keys \in SeqsUpTo(Range(VALID_SECTION_KEYS), MaxShownLength) :
      Len(keys) > 0 /\ keys[1] = "contact" /\ NoDuplicates(keys) }
  \cup { <<"contact", "summary", "experience", "education", "skills", "projects">>,
         <<"contact", "summary", "experienceProjects", "education", "skills">> }

InitReorder ==
  /\ ValidatorIdle
  /\ PdfIdle
  /\ HandlerIdle
  /\ CallsIdle
  /\ shownOrder \in ShownOrders
  /\ clicked = <<>>

\* [newOrder[i], newOrder[j]] = [newOrder[j], newOrder[i]], i and j zero-based
Swapped(keys, i, j) ==
  [k \in 1..Len(keys) |-> IF k = i + 1 THEN keys[j + 1]
                          ELSE IF k = j + 1 THEN keys[i + 1]
                          ELSE keys[k]]

\* as moveUp, refusing only the first row
moveUp_AboveContact(index) ==
  /\ clicked' = [op |-> "moveUp", index |-> index]
  /\ shownOrder' = IF index <= 0 THEN shownOrder
                   ELSE Swapped(shownOrder, index - 1, index)
  /\ UNCHANGED <<validatorVars, pdfVars, handlerVars, callVars>>

moveUp(index) ==
  /\ clicked' = [op |-> "moveUp", index |-> index]
  /\ shownOrder' = IF index <= 1 THEN shownOrder
                   ELSE Swapped(shownOrder, index - 1, index)
  /\ UNCHANGED <<validatorVars, pdfVars, handlerVars, callVars>>

moveDown(index) ==
  /\ clicked' = [op |-> "moveDown", index |-> index]
  /\ shownOrder' = IF index = 0 \/ index >= Len(shownOrder) - 1 THEN shownOrder
                   ELSE Swapped(shownOrder, index, index + 1)
  /\ UNCHANGED <<validatorVars, pdfVars, handlerVars, callVars>>

resetOrder ==
  /\ clicked' = [op |-> "reset", index |-> 0]
  /\ shownOrder' = <<"contact", "summary", "experience", "education", "skills", "projects">>
  /\ UNCHANGED <<validatorVars, pdfVars, handlerVars, callVars>>

\* the buttons of the rows sectionOrder.map renders
ClickMoveUp == \E index \in 0..(Len(shownOrder) - 1) : moveUp(index)

ClickMoveDown == \E index \in 0..(Len(shownOrder) - 1) : moveDown(index)

NextReorder ==
  \/ ClickMoveUp
  \/ ClickMoveDown
  \/ resetOrder

SpecReorder == InitReorder /\ [][NextReorder]_vars

\* C30: whichever button is pressed, 'contact' stays at index 0 and no key
\* occurs twice; a move keeps the keys and the length of the order, reset
\* gives the six-key default order; moveUp on index 0 or 1 and moveDown on
\* index 0 or on the last index leave the order as it is
C30_ContactStaysFirst ==
  [][/\ shownOrder'[1] = "contact"
     /\ NoDuplicates(shownOrder')
     /\ clicked'.op = "reset" =>
          shownOrder' = <<"contact", "summary", "experience", "education", "skills",
                          "projects">>
     /\ clicked'.op # "reset" =>
          Len(shownOrder') = Len(shownOrder) /\ Range(shownOrder') = Range(shownOrder)
     /\ (clicked'.op = "moveUp" /\ clicked'.index <= 1) => shownOrder' = shownOrder
     /\ (clicked'.op = "moveDown"
          /\ (clicked'.index = 0 \/ clicked'.index = Len(shownOrder) - 1)) =>
          shownOrder' = shownOrder]_reorderVars

C30_Witness ==
  /\ clicked = [op |-> "moveDown", index |-> 4]
  /\ shownOrder = <<"contact", "education", "summary", "experience", "projects", "skills">>

(***************************************************************************)
(* The request handlers: handleGeneratePDF of server.ts and handler of     *)
(* api/generate-pdf.ts, from the parsed body on.  validateResume,          *)
(* transformResumeToDocumentWithOrder and renderDocumentToPDFWithMetadata  *)
(* run as the actions above; the handler's own steps are the call of the   *)
(* validator, the step after its return and the response.                  *)
(* handler: "received" -> "validate" -> "pipeline" -> "responded".         *)
(***************************************************************************)
\* the text of a string value; U+0000 is written ^
RECURSIVE Repeated(_, _)
Repeated(c, n) ==
  IF n = 0 THEN ""
  ELSE IF n = 1 THEN (IF c = "NUL" THEN "^" ELSE c)
  ELSE Repeated(c, n \div 2) \o Repeated(c, n - n \div 2)

RECURSIVE ToText(_)
ToText(runs) ==
  IF runs = <<>> THEN "" ELSE Repeated(Head(runs)[1], Head(runs)[2]) \o ToText(Tail(runs))

\* a field the transformer reads as a string: absent, null and '' are falsy
TextOf(v) == IF IsString(v) THEN ToText(Body(v)) ELSE ""

\* a field the transformer reads as an array of strings, absent or null
\* being falsy
TextsOf(v) == IF IsArray(v) THEN [i \in 1..Len(Body(v)) |-> TextOf(Body(v)[i])] ELSE <<>>

EntriesOf(v) == IF IsArray(v) THEN Body(v) ELSE <<>>

\* body.resume as Resume: the fields the transformer reads, by their names
AsResume(d) ==
  LET contact == Get(d, "contact")
      experience == EntriesOf(Get(d, "experience"))
      education == EntriesOf(Get(d, "education"))
      projects == EntriesOf(Get(d, "projects"))
  IN [contact |->
        [fullName |-> TextOf(Get(contact, "fullName")),
         jobTitle |-> TextOf(Get(contact, "jobTitle")),
         email |-> TextOf(Get(contact, "email")),
         phone |-> TextOf(Get(contact, "phone")),
         location |-> TextOf(Get(contact, "location")),
         linkedin |-> TextOf(Get(contact, "linkedin")),
         github |-> TextOf(Get(contact, "github")),
         portfolio |-> TextOf(Get(contact, "portfolio")),
         twitter |-> TextOf(Get(contact, "twitter"))],
      summary |-> [summary |-> TextOf(Get(Get(d, "summary"), "summary"))],
      experience |->
        [i \in 1..Len(experience) |->
           [company |-> TextOf(Get(experience[i], "company")),
            role |-> TextOf(Get(experience[i], "role")),
            location |-> TextOf(Get(experience[i], "location")),
            startDate |-> TextOf(Get(experience[i], "startDate")),
            endDate |-> TextOf(Get(experience[i], "endDate")),
            description |-> TextsOf(Get(experience[i], "description"))]],
      education |->
        [i \in 1..Len(education) |->
           [institution |-> TextOf(Get(education[i], "institution")),
            degree |-> TextOf(Get(education[i], "degree")),
            fieldOfStudy |-> TextOf(Get(education[i], "fieldOfStudy")),
            startDate |-> TextOf(Get(education[i], "startDate")),
            endDate |-> TextOf(Get(education[i], "endDate")),
            cgpa |-> TextOf(Get(education[i], "cgpa")),
            relevantCourseWork |-> TextsOf(Get(education[i], "relevantCourseWork"))]],
      skills |-> [skills |-> TextsOf(Get(Get(d, "skills"), "skills"))],
      projects |->
        [i \in 1..Len(projects) |->
           [name |-> TextOf(Get(projects[i], "name")),
            description |-> TextsOf(Get(projects[i], "description")),
            techStack |-> TextsOf(Get(projects[i], "techStack")),
            link |-> TextOf(Get(projects[i], "link"))]]]

\* const { resume, sectionOrder, fontProfile, densityPreset } = body; an
\* absent densityPreset is written ""
RequestBody(r, so, preset) == [resume |-> r, sectionOrder |-> so, densityPreset |-> preset]

\* the payloads of the requests: the well-formed one, those with one part
\* replaced, and values that are no resume at all
RequestResumes ==
  { Resume(f, TIGHT_LIMITS) :
      f \in { g \in Picks(TIGHT_LIMITS) : Cardinality(DOMAIN g) <= 1 } }
  \cup NotResumes(TIGHT_LIMITS)

\* the bodies either handler is sent; the density preset is absent or one of
\* the three presets
Bodies ==
  { RequestBody(r, Undef, "") : r \in RequestResumes }
  \cup { RequestBody(Resume(<<>>, TIGHT_LIMITS), so, preset) :
           so \in {Undef, Arr(<<"contact", "summary", "experienceProjects",
                                "education", "skills">>)},
           preset \in DensityPresets }

\* bodies only the server is sent: an unknown density preset, an empty resume
ServerBodies ==
  { RequestBody(Resume(<<>>, TIGHT_LIMITS), Undef, "bogus"), RequestBody(sEmpty, Undef, "") }

InitHandler ==
  /\ ValidatorIdle
  /\ PdfIdle
  /\ CallsIdle
  /\ ReorderIdle
  /\ endpoint \in {"server", "api"}
  /\ body \in Bodies \cup (IF endpoint = "server" THEN ServerBodies ELSE {})
  /\ handler = "received"
  /\ response = [status |-> 0, error |-> "", validationErrors |-> <<>>, pageCount |-> 0]

\* !resume
Falsy(v) == v \in {Undef, Null, sEmpty}

\* the checks of server.ts before the validation, then in both handlers
\* the call validateResume(resume)
HandlerValidate ==
  /\ handler = "received"
  /\ IF endpoint = "server" /\ Falsy(body.resume)
     THEN /\ response' = [response EXCEPT !.status = 400,
                                          !.error = "Missing required field: resume"]
          /\ handler' = "responded"
          /\ UNCHANGED validatorVars
     ELSE IF endpoint = "server" /\ body.densityPreset # ""
             /\ body.densityPreset \notin {"normal", "compact", "ultra-compact"}
     THEN /\ response' = [response EXCEPT !.status = 400,
                                          !.error = "Invalid densityPreset"]
          /\ handler' = "responded"
          /\ UNCHANGED validatorVars
     ELSE /\ data' = body.resume
          /\ limits' = DEFAULT_VALIDATION_LIMITS
          /\ pc' = "presence"
          /\ errors' = <<>>
          /\ isValid' = FALSE
          /\ ran' = <<>>
          /\ handler' = "validate"
          /\ UNCHANGED response
  /\ UNCHANGED <<endpoint, body, pdfVars, callVars, reorderVars>>

\* as HandlerTransform, going on whatever the validator returned
HandlerTransform_Unchecked ==
  /\ handler = "validate"
  /\ pc = "done"
  /\ resume' = AsResume(data)
  /\ sectionOrder' = body.sectionOrder
  /\ densityPreset' = IF body.densityPreset # "" THEN body.densityPreset ELSE "normal"
  /\ stage' = "order"
  /\ handler' = "pipeline"
  /\ UNCHANGED <<response, order, elements, sectionIndex, renderVars>>
  /\ UNCHANGED <<endpoint, body, validatorVars, callVars, reorderVars>>

\* after validateResume has returned: the 400 response with the validation
\* errors, or the call transformResumeToDocumentWithOrder(resume, sectionOrder)
HandlerTransform ==
  /\ handler = "validate"
  /\ pc = "done"
  /\ IF ~isValid
     THEN /\ response' = [response EXCEPT !.status = 400,
                                          !.error = "Resume validation failed",
                                          !.validationErrors = errors]
          /\ handler' = "responded"
          /\ UNCHANGED pdfVars
     ELSE /\ resume' = AsResume(data)
          /\ sectionOrder' = body.sectionOrder
          /\ densityPreset' = IF body.densityPreset # "" THEN body.densityPreset
                              ELSE "normal"
          /\ stage' = "order"
          /\ handler' = "pipeline"
          /\ UNCHANGED <<response, order, elements, sectionIndex, renderVars>>
  /\ UNCHANGED <<endpoint, body, validatorVars, callVars, reorderVars>>

\* after the renderer has returned {buffer, pageCount}: the PDF response
\* with the X-PDF-Page-Count header
HandlerRespond ==
  /\ handler = "pipeline"
  /\ stage = "done"
  /\ response' = [response EXCEPT !.status = 200, !.pageCount = pageCount]
  /\ handler' = "responded"
  /\ UNCHANGED <<endpoint, body, validatorVars, pdfVars, callVars, reorderVars>>

NextHandler ==
  \/ HandlerValidate
  \/ Next
  \/ HandlerTransform
  \/ NextPdf
  \/ HandlerRespond

SpecHandler == InitHandler /\ [][NextHandler]_vars

\* the texts of a Document: of its headings, paragraphs and text lines and
\* of the items of its lists
TextsIn(doc) ==
  { doc[i].text : i \in 1..Len(doc) }
  \cup UNION { { doc[i].items[k].text : k \in 1..Len(doc[i].items) } : i \in 1..Len(doc) }

StageRank(s) ==
  CASE s = "idle" -> 0 [] s = "order" -> 1 [] s = "sections" -> 2
    [] s = "document" -> 3 [] s = "render" -> 4 [] s = "done" -> 5

\* C22: in both handlers transform is called only once validate has
\* returned isValid = true and render only once transform has returned its
\* document; each of the three runs at most once, validate never after the
\* transformation has begun; a resume that fails validation is answered
\* with status 400 and the validation errors, transform and render never
\* having been called
C22_ValidateTransformRender ==
  /\ [](stage # "idle" => pc = "done" /\ isValid)
  /\ []((handler = "responded" /\ pc = "done" /\ ~isValid) =>
          /\ response.status = 400
          /\ response.validationErrors = errors
          /\ Len(errors) > 0
          /\ stage = "idle")
  /\ [](response.status = 200 => pc = "done" /\ isValid /\ stage = "done")
  /\ [][/\ pc = "done" => UNCHANGED validatorVars
        /\ StageRank(stage') \in {StageRank(stage), StageRank(stage) + 1}
        /\ (stage = "render" /\ stage' = "render") => UNCHANGED elements]_vars

C22_Witness ==
  /\ handler = "responded"
  /\ response.status = 200
  /\ response.pageCount = 1
  /\ ran # <<>>
  /\ Len(elements) > 3
  /\ Len(draws) > 3

\* C26: in a handler's run no text of the Document carries a character of
\* the payload that the safe-content predicate rejects (written "<"), the
\* transformer being called for accepted resumes only
C26_OnlyCheckedStringsInDocument ==
  \A text \in TextsIn(elements) : ~includes(text, "<")

(***************************************************************************)
(* Render calls in progress at once.  Each call of                         *)
(* renderDocumentToPDFWithMetadata builds its own PDF document and its own *)
(* RendererState object; `states` holds the objects built so far (a state  *)
(* with the page counts of its doc), calls[c].state is the object the      *)
(* local `state` of call c refers to, and the element steps of the calls   *)
(* are taken in any order.                                                 *)
(***************************************************************************)
\* const state: RendererState = { doc, currentY: PAGE_CONFIG.marginTop, ...,
\* isFirstTextLine: true }, doc being a new document of one page
NewRendererState ==
  [currentY |-> PAGE_CONFIG.marginTop, isFirstTextLine |-> TRUE, newPages |-> 0,
   pageCount |-> 1]

\* as Allocate, one object serving every call
Allocate_Shared(heap) ==
  IF heap = <<>> THEN [heap |-> <<NewRendererState>>, id |-> 1]
  ELSE [heap |-> heap, id |-> 1]

\* the object a call builds: a new one
Allocate(heap) == [heap |-> Append(heap, NewRendererState), id |-> Len(heap) + 1]

\* renderElement(state, element) for every type but LIST
renderElement(st, element, config) ==
  LET bodySize == config.fontSizes.body
      bodyLine == calculateLineHeight(bodySize)
      pages(check) == IF check.addPage THEN 1 ELSE 0
  IN CASE element.type = "HEADING" ->
            LET fontSize == IF element.level = 1 THEN config.fontSizes.h1
                            ELSE IF element.level = 2 THEN config.fontSizes.h2
                            ELSE config.fontSizes.h3
                lineHeight == calculateLineHeight(fontSize)
                check == checkPageBreak(st.currentY, lineHeight)
                spacingAfter == IF element.level = 1 THEN config.spacing.afterNameHeading
                                ELSE config.spacing.afterHeading
            IN [st EXCEPT !.currentY = check.currentY + lineHeight + spacingAfter,
                          !.newPages = @ + pages(check),
                          !.pageCount = @ + pages(check)]
       [] element.type = "PARAGRAPH" ->
            LET check == checkPageBreak(st.currentY, config.spacing.minSpaceForParagraph)
                end == TextEnd(check.currentY, WrappedLines(element.text), bodyLine)
            IN [st EXCEPT !.currentY = end.y + config.spacing.afterParagraph,
                          !.newPages = @ + pages(check),
                          !.pageCount = @ + pages(check) + end.pages]
       [] element.type = "TEXT_LINE" ->
            LET isContactLine == st.isFirstTextLine
                fontSize == IF isContactLine THEN config.fontSizes.contactInfo ELSE bodySize
                lineHeight == calculateLineHeight(fontSize)
                check == checkPageBreak(st.currentY, lineHeight)
                spacingAfter == IF isContactLine THEN config.spacing.afterContactLine
                                ELSE config.spacing.afterTextLine
            IN [st EXCEPT !.isFirstTextLine = FALSE,
                          !.currentY = check.currentY + lineHeight + spacingAfter,
                          !.newPages = @ + pages(check),
                          !.pageCount = @ + pages(check)]
       [] element.type = "SECTION_BREAK" ->
            [st EXCEPT !.currentY = @ + config.spacing.sectionBreak]

\* one call of the items.forEach callback of renderList, `index` being its index
renderListItem(st, element, index, config) ==
  LET lineHeight == calculateLineHeight(config.fontSizes.body)
      check == checkPageBreak(st.currentY, config.spacing.minSpaceForListItem)
      between == IF index < Len(element.items) - 1 THEN config.spacing.betweenListItems
                 ELSE 0
      end == TextEnd(check.currentY, WrappedLines(element.items[index + 1].text), lineHeight)
  IN [st EXCEPT !.currentY = end.y + between,
                !.newPages = @ + (IF check.addPage THEN 1 ELSE 0),
                !.pageCount = @ + (IF check.addPage THEN 1 ELSE 0) + end.pages]

\* the next step of a rendering at element `at`, list item `index`: the state
\* after it and the place of the step after it
renderStep(st, document, preset, at, index) ==
  LET config == getConfigForDensity(preset)
      element == document[at]
  IN IF element.type # "LIST"
     THEN [state |-> renderElement(st, element, config), position |-> at + 1, item |-> 0]
     ELSE IF index < Len(element.items)
     THEN [state |-> renderListItem(st, element, index, config), position |-> at,
           item |-> index + 1]
     ELSE [state |-> [st EXCEPT !.currentY = @ + config.spacing.afterList],
           position |-> at + 1, item |-> 0]

\* the documents of the calls: one that fills more than a page, two short ones
CallDocuments ==
  { <<Heading(1, "Name"), TextLine("line"), TextLine("line"), Filler(FillFrom),
      Paragraph("a text of three lines"), SectionBreak, Heading(2, "Section")>>,
    <<Paragraph("brief"), List(<<"one", "two lines long">>), TextLine("line")>>,
    <<TextLine("line"), Heading(2, "Section"), TextLine("")>> }

Callers == {1, 2}

InitCalls ==
  /\ ValidatorIdle
  /\ PdfIdle
  /\ HandlerIdle
  /\ ReorderIdle
  /\ states = <<>>
  /\ calls \in [Callers -> { [document |-> d, densityPreset |-> preset, state |-> 0,
                               position |-> 0, item |-> 0, trace |-> <<>>,
                               returned |-> 0, stage |-> "called"] :
                               d \in CallDocuments, preset \in {"normal", "ultra-compact"} }]

\* renderDocumentToPDFWithMetadata up to the forEach
CallStart(c) ==
  /\ calls[c].stage = "called"
  /\ verifyElementOrderPreservation(calls[c].document)
  /\ LET built == Allocate(states)
     IN /\ states' = built.heap
        /\ calls' = [calls EXCEPT ![c].state = built.id, ![c].position = 1,
                                  ![c].stage = "render"]
  /\ UNCHANGED <<validatorVars, pdfVars, handlerVars, reorderVars>>

\* one element step of call c, on the object its `state` refers to
CallStep(c) ==
  /\ calls[c].stage = "render"
  /\ calls[c].position <= Len(calls[c].document)
  /\ LET call == calls[c]
         next == renderStep(states[call.state], call.document, call.densityPreset,
                            call.position, call.item)
     IN /\ states' = [states EXCEPT ![call.state] = next.state]
        /\ calls' = [calls EXCEPT ![c].position = next.position, ![c].item = next.item,
                                  ![c].trace = Append(@, next.state)]
  /\ UNCHANGED <<validatorVars, pdfVars, handlerVars, reorderVars>>

\* doc.end(): the call resolves with the page count of its document
CallEnd(c) ==
  /\ calls[c].stage = "render"
  /\ calls[c].position > Len(calls[c].document)
  /\ calls' = [calls EXCEPT ![c].stage = "done",
                            ![c].returned = states[calls[c].state].pageCount]
  /\ UNCHANGED <<states, validatorVars, pdfVars, handlerVars, reorderVars>>

StartACall == \E c \in Callers : CallStart(c)

StepACall == \E c \in Callers : CallStep(c)

EndACall == \E c \in Callers : CallEnd(c)

NextCalls ==
  \/ StartACall
  \/ StepACall
  \/ EndACall

SpecCalls == InitCalls /\ [][NextCalls]_vars

\* the states a rendering goes through when it runs alone
RECURSIVE AloneFrom(_, _, _, _, _)
AloneFrom(st, document, preset, at, index) ==
  IF at > Len(document) THEN <<>>
  ELSE LET next == renderStep(st, document, preset, at, index)
       IN <<next.state>> \o AloneFrom(next.state, document, preset, next.position, next.item)

Alone(document, preset) == AloneFrom(NewRendererState, document, preset, 1, 0)

\* C21: whatever the order of the element steps of the two calls, each call
\* sees after each of its steps the cursor, the contact flag and the page
\* counts it sees when it runs alone, and returns the same page count
C21_CallsShareNoState ==
  \A c \in Callers :
    LET call == calls[c]
        alone == Alone(call.document, call.densityPreset)
    IN /\ Len(call.trace) <= Len(alone)
       /\ call.trace = SubSeq(alone, 1, Len(call.trace))
       /\ call.stage = "done" =>
            /\ call.trace = alone
            /\ call.returned = alone[Len(alone)].pageCount

\* both calls are under way, each on an object of its own and past a page
\* break of its own, at different heights
C21_Witness ==
  /\ calls[1].stage = "render" /\ calls[2].stage = "render"
  /\ calls[1].state # calls[2].state
  /\ states[calls[1].state].newPages = 1
  /\ states[calls[2].state].newPages = 1
  /\ states[calls[1].state].currentY # states[calls[2].state].currentY

====
